---- MODULE Spec2Model ----
(***************************************************************************)
(* Hash-chained deed ledgers and admission guards of Church-of-FEAR.       *)
(*                                                                         *)
(* The repository holds four ledger implementations, one per crate:        *)
(*   "moral" church_of_fear_ledger      MoralLedger, a JSONL file          *)
(*   "mem"   src/ledger                 Ledger, a Vec<DeedEvent>           *)
(*   "sov"   augmented-citizen-...-core SovereigntyCore.deed_log           *)
(*   "fear"  crates/Church-of-FEAR      DeedEvent::new + validate_chain    *)
(* and two admission guards:                                               *)
(*   "ecofairness-guard"    crates/ecofairness-guard, EcoFairnessGuard     *)
(*   "ecofairness_guardian" auto_church/ecofairness_guardian,              *)
(*                          GraceEquityKernel over the CURRENT_USAGE map   *)
(* A run of the model is a run of one of these crates: Spec and SpecTamper *)
(* run a ledger crate, SpecGuard the guard, SpecGek and SpecGekFair the    *)
(* kernel.                                                                 *)
(*                                                                         *)
(* Strings (hex digests included) are sequences of naturals.  SHA-256 is   *)
(* modelled as a collision-free function: the digest of a byte string is   *)
(* the byte string behind a tag.                                           *)
(***************************************************************************)
EXTENDS Integers, Sequences, FiniteSets, TLC

VARIABLES
    crate,          \* the crate whose program runs
    file,           \* moral: what has been written to the ledger file
    handles,        \* moral: the MoralLedger values, [open, last_hash]
    events,         \* mem:   Ledger.events
    last_hash,      \* mem:   Ledger.last_hash
    deed_log,       \* sov:   SovereigntyCore.deed_log
    current_hash,   \* sov:   SovereigntyCore.current_hash
    chain,          \* fear:  the caller's slice of DeedEvents
    corrupted,      \* index of the record an outside party edited, 0 if none
    ret,            \* the last call and its result: [op, h, res]
    cfg,            \* guard: EcoFairnessGuard.cfg
    action,         \* guard: the XRAction handed to check
    snapshot,       \* guard: the ResourceUsageSnapshot handed to check
    result,         \* guard: what check returned, "none" before the call
    ECO_FAIRNESS_SPEC,  \* kernel: the loaded EcoFairnessSpec
    CURRENT_USAGE,  \* kernel: the DashMap subject -> EcoEnvelope
    usage_lock,     \* kernel: per shard, the thread holding its write lock
    calls,          \* kernel: per thread, its check_route call
    args,           \* loaders and pure functions: the input of the call
    returned,       \* loaders and pure functions: its result, "none" before
    loop_pc,        \* main: where run_main_loop stands
    shutdown,       \* main: the value of the shutdown watch channel
    decision,       \* main: the EthicsDecision of the tick under way
    ledger_writes   \* main: the calls of a mutating method of the ledger

ledger_vars == <<crate, file, handles, events, last_hash, deed_log,
                 current_hash, chain, corrupted, ret>>
eco_vars == <<cfg, action, snapshot, result, ECO_FAIRNESS_SPEC,
              CURRENT_USAGE, usage_lock, calls>>
fn_vars == <<args, returned>>
main_vars == <<loop_pc, shutdown, decision, ledger_writes>>
vars == <<crate, file, handles, events, last_hash, deed_log, current_hash,
          chain, corrupted, ret, cfg, action, snapshot, result,
          ECO_FAIRNESS_SPEC, CURRENT_USAGE, usage_lock, calls, args, returned,
          loop_pc, shutdown, decision, ledger_writes>>

\* run_main_loop has not been started.
NoMainLoop ==
    /\ loop_pc = "none"
    /\ shutdown = FALSE
    /\ decision = "None"
    /\ ledger_writes = 0

\* Bound on the number of records of a ledger (and of write attempts).
MaxLen == 3

Crates == {"moral", "mem", "sov", "fear"}
Handles == {1, 2}
Actors == {1, 2}
Payloads == {1, 2}

---------------------------------------------------------------------------
\* Strings and hashing

EmptyString == <<>>

\* "0".repeat(64)
GENESIS_HASH == <<0>>

\* A string inside a serialization: delimited, so that fields do not run
\* into one another.
EncStr(s) == <<Len(s)>> \o s

\* Sha256::new(); update(bytes); format!("{:x}", finalize())
Sha256(bytes) == <<1>> \o bytes

\* A DeedEvent.  event_id is the UUID, one per event created; payload stands
\* for the remaining fields (timestamp, deed_type, tags, context_json,
\* ethics_flags, life_harm_flag).
DeedEvent(event_id, prev_hash, self_hash, actor_id, payload) ==
    [event_id |-> event_id, prev_hash |-> prev_hash, self_hash |-> self_hash,
     actor_id |-> actor_id, payload |-> payload]

NoEvent == DeedEvent(0, EmptyString, EmptyString, 0, 0)

\* serde_json::to_string of a struct deriving Serialize on every field:
\* the fields in declaration order.
to_string(event) ==
    <<event.event_id>> \o EncStr(event.prev_hash) \o EncStr(event.self_hash)
        \o <<event.actor_id, event.payload>>

\* serde_json::to_string of src/ledger's DeedEvent, whose self_hash is
\* #[serde(skip_serializing)].
to_string_skip_self_hash(event) ==
    <<event.event_id>> \o EncStr(event.prev_hash)
        \o <<event.actor_id, event.payload>>

---------------------------------------------------------------------------
\* crates/Church-of-FEAR: DeedEvent::new, hash_deed, validate_chain

hash_deed(event) == Sha256(to_string(event))

\* DeedEvent::new, event_id being the UUID it draws.
DeedEvent_new(event_id, prev_hash, actor_id, payload) ==
    LET event == DeedEvent(event_id, prev_hash, EmptyString, actor_id, payload)
    IN  [event EXCEPT !.self_hash = hash_deed(event)]

\* events.par_windows(2).all(|w| w[1].prev_hash == w[0].self_hash), the
\* windows taken from the one starting at index i.
RECURSIVE windows_all(_, _)
windows_all(evs, i) ==
    IF i + 1 > Len(evs) THEN TRUE
    ELSE /\ evs[i + 1].prev_hash = evs[i].self_hash
         /\ windows_all(evs, i + 1)

\* Faulty variant of validate_chain: any in place of all.
validate_chain_any(evs) ==
    \E i \in 1..(Len(evs) - 1) : evs[i + 1].prev_hash = evs[i].self_hash

validate_chain(evs) == windows_all(evs, 1)

---------------------------------------------------------------------------
\* augmented-citizen-sovereignty-core: DeedEvent, SovereigntyCore

compute_hash(event) == Sha256(to_string(event))

\* DeedEvent::new, event_id being the UUID it draws: prev_hash and
\* self_hash are empty while the first hash is computed.
Sov_DeedEvent_new(event_id, actor_id, payload) ==
    LET event == DeedEvent(event_id, EmptyString, EmptyString, actor_id,
                           payload)
    IN  [event EXCEPT !.self_hash = compute_hash(event)]

\* link_to_prev: the hash is taken over the event as it stands, the old
\* self_hash included.
link_to_prev(event, prev_hash) ==
    LET linked == [event EXCEPT !.prev_hash = prev_hash]
    IN  [linked EXCEPT !.self_hash = compute_hash(linked)]

\* "augmented_citizen"
AugmentedCitizen == 1

---------------------------------------------------------------------------
\* src/ledger: DeedEvent::compute_self_hash, Ledger

compute_self_hash(event) == Sha256(to_string_skip_self_hash(event))

\* self.events.iter().filter(|e| e.actor_id == actor_id).collect()
events_for_actor(evs, actor_id) ==
    SelectSeq(evs, LAMBDA e : e.actor_id = actor_id)

---------------------------------------------------------------------------
\* church_of_fear_ledger: MoralLedger over a JSONL file
\*
\* The file is the sequence of what has been written to it: the text of a
\* whole record ("rec"), a proper prefix of a record's text ("part", left
\* by a write that failed midway) and line ends ("nl").

RecTok(event) == [t |-> "rec", ev |-> event]
PartTok == [t |-> "part", ev |-> NoEvent]
NlTok == [t |-> "nl", ev |-> NoEvent]

\* DeedEvent::finalize_hash_chain (crate::deed is not part of the sources):
\* prev_hash = last_hash, self_hash = H(record without self_hash).
finalize_hash_chain(event, prev_hash) ==
    LET linked == [event EXCEPT !.prev_hash = prev_hash]
    IN  [linked EXCEPT
            !.self_hash = Sha256(to_string_skip_self_hash(linked))]

\* BufRead::lines: the text between line ends; text after the last line
\* end is a line too, unless there is none.
RECURSIVE lines_from(_, _, _)
lines_from(f, i, cur) ==
    IF i > Len(f) THEN (IF Len(cur) = 0 THEN <<>> ELSE <<cur>>)
    ELSE IF f[i].t = "nl" THEN <<cur>> \o lines_from(f, i + 1, <<>>)
    ELSE lines_from(f, i + 1, Append(cur, f[i]))

lines(f) == lines_from(f, 1, <<>>)

\* serde_json::from_str::<DeedEvent>(&line) succeeds on the text of exactly
\* one whole record.
from_str_ok(line) == Len(line) = 1 /\ line[1].t = "rec"

\* Faulty variant of replay: the loop never assigns last_hash.
replay_without_assignment(ls, i, last) ==
    [ok |-> \A k \in i..Len(ls) : Len(ls[k]) = 0 \/ from_str_ok(ls[k]),
     last_hash |-> last]

\* replay with a line that does not parse skipped like a blank one.
replay_skipping_unparsable(ls, i, last) ==
    LET good == SelectSeq(SubSeq(ls, i, Len(ls)), from_str_ok)
    IN  [ok |-> TRUE,
         last_hash |-> IF Len(good) = 0 THEN last
                       ELSE good[Len(good)][1].ev.self_hash]

\* The loop of open_or_create over the lines from index i on, last being
\* the last_hash so far: blank lines are skipped, a line that does not
\* parse ends the loop with an error.
RECURSIVE replay(_, _, _)
replay(ls, i, last) ==
    IF i > Len(ls) THEN [ok |-> TRUE, last_hash |-> last]
    ELSE IF Len(ls[i]) = 0 THEN replay(ls, i + 1, last)
    ELSE IF ~from_str_ok(ls[i]) THEN [ok |-> FALSE, last_hash |-> last]
    ELSE replay(ls, i + 1, ls[i][1].ev.self_hash)

\* "user:xboxteejay", the actor of every deed main.rs logs
User == 1

ClosedHandle == [open |-> FALSE, last_hash |-> EmptyString]

\* What a call returned: op the operation, h the MoralLedger handle it was
\* made on (0 elsewhere; for events_for_actor the number of events
\* returned), res the Ok or error variant.
Ret(op, h, res) == [op |-> op, h |-> h, res |-> res]

\* Number of write attempts that left text in the file.
Written(f) == Cardinality({i \in 1..Len(f) : f[i].t # "nl"})

---------------------------------------------------------------------------
\* State after construction: no file content, no MoralLedger opened yet,
\* Ledger::new(), SovereigntyCore::new(), an empty slice.

Init ==
    /\ crate \in Crates
    /\ file = <<>>
    /\ handles = [h \in Handles |-> ClosedHandle]
    /\ events = <<>>
    /\ last_hash = EmptyString
    /\ deed_log = <<>>
    /\ current_hash = GENESIS_HASH
    /\ chain = <<>>
    /\ corrupted = 0
    /\ ret = Ret("none", 0, "none")
    /\ cfg = <<>>
    /\ action = <<>>
    /\ snapshot = <<>>
    /\ result = "none"
    /\ ECO_FAIRNESS_SPEC = <<>>
    /\ CURRENT_USAGE = <<>>
    /\ usage_lock = <<>>
    /\ calls = <<>>
    /\ args = <<>>
    /\ returned = "none"
    /\ NoMainLoop

---------------------------------------------------------------------------
\* MoralLedger

\* MoralLedger::open_or_create(path), its result kept as handle h.
open_or_create(h) ==
    /\ crate = "moral"
    /\ \/ \* opening or reading the file fails
          /\ ret' = Ret("open_or_create", h, "Io")
          /\ UNCHANGED handles
       \/ LET r == replay(lines(file), 1, GENESIS_HASH)
          IN  IF r.ok
              THEN /\ handles' = [handles EXCEPT
                          ![h] = [open |-> TRUE, last_hash |-> r.last_hash]]
                   /\ ret' = Ret("open_or_create", h, "Ok")
              ELSE /\ ret' = Ret("open_or_create", h, "InvalidData")
                   /\ UNCHANGED handles
    /\ UNCHANGED <<crate, file, events, last_hash, deed_log, current_hash,
                   chain, corrupted>>
    /\ UNCHANGED eco_vars
    /\ UNCHANGED fn_vars
    /\ UNCHANGED main_vars

\* MoralLedger::append(&mut self, event) on handle h.  The call is one step:
\* it reads and writes the handle's own last_hash only, and the two handles
\* meet in the file alone.
MoralLedger_append(h, payload) ==
    /\ crate = "moral"
    /\ handles[h].open
    /\ LET event == finalize_hash_chain(
                        DeedEvent(Written(file) + 1, EmptyString, EmptyString,
                                  User, payload),
                        handles[h].last_hash)
       IN  \/ \* validate_new_event rejects the event
              /\ ret' = Ret("append", h, "Validation")
              /\ UNCHANGED <<file, handles>>
           \/ \* serde_json::to_string fails
              /\ ret' = Ret("append", h, "Serialization")
              /\ UNCHANGED <<file, handles>>
           \/ \* OpenOptions::open fails
              /\ ret' = Ret("append", h, "Io")
              /\ UNCHANGED <<file, handles>>
           \/ \* writeln! fails: write_fmt writes the record's text and the
              \* line end in separate writes, and either may fail after
              \* none, some or all of the record's text went out
              /\ Written(file) < MaxLen
              /\ ret' = Ret("append", h, "Io")
              /\ \/ file' = file
                 \/ file' = Append(file, PartTok)
                 \/ file' = Append(file, RecTok(event))
              /\ UNCHANGED handles
           \/ /\ Written(file) < MaxLen
              /\ file' = file \o <<RecTok(event), NlTok>>
              /\ handles' = [handles EXCEPT ![h].last_hash = event.self_hash]
              /\ ret' = Ret("append", h, "Ok")
    /\ UNCHANGED <<crate, events, last_hash, deed_log, current_hash,
                   chain, corrupted>>
    /\ UNCHANGED eco_vars
    /\ UNCHANGED fn_vars
    /\ UNCHANGED main_vars

---------------------------------------------------------------------------
\* Ledger (in memory)

\* Faulty variant of Ledger_append: the event is inserted at the front.
Ledger_append_at_front(event) ==
    /\ crate = "mem"
    /\ IF event.prev_hash # last_hash
       THEN /\ ret' = Ret("append", 0, "panic")
            /\ UNCHANGED <<events, last_hash>>
       ELSE /\ Len(events) < MaxLen
            /\ events' = <<event>> \o events
            /\ last_hash' = event.self_hash
            /\ ret' = Ret("append", 0, "Ok")
    /\ UNCHANGED <<crate, file, handles, deed_log, current_hash, chain,
                   corrupted>>
    /\ UNCHANGED eco_vars
    /\ UNCHANGED fn_vars
    /\ UNCHANGED main_vars

\* Faulty variant of Ledger_append: prev_hash is not compared.
Ledger_append_untested(event) ==
    /\ crate = "mem"
    /\ Len(events) < MaxLen
    /\ events' = Append(events, event)
    /\ last_hash' = event.self_hash
    /\ ret' = Ret("append", 0, "Ok")
    /\ UNCHANGED <<crate, file, handles, deed_log, current_hash, chain,
                   corrupted>>
    /\ UNCHANGED eco_vars
    /\ UNCHANGED fn_vars
    /\ UNCHANGED main_vars

\* Ledger::append(&mut self, event): the caller built the event.
Ledger_append(event) ==
    /\ crate = "mem"
    /\ IF event.prev_hash # last_hash
       THEN /\ ret' = Ret("append", 0, "panic")
            /\ UNCHANGED <<events, last_hash>>
       ELSE /\ Len(events) < MaxLen
            /\ events' = Append(events, event)
            /\ last_hash' = event.self_hash
            /\ ret' = Ret("append", 0, "Ok")
    /\ UNCHANGED <<crate, file, handles, deed_log, current_hash, chain,
                   corrupted>>
    /\ UNCHANGED eco_vars
    /\ UNCHANGED fn_vars
    /\ UNCHANGED main_vars

\* The events a caller may hand to Ledger::append: a new event with any
\* prev_hash, its self_hash either left empty or set with
\* compute_self_hash.
CallerEvent(p, a, x, c) ==
    LET event == DeedEvent(Len(events) + 1, p, EmptyString, a, x)
    IN  IF c THEN [event EXCEPT !.self_hash = compute_self_hash(event)]
             ELSE event

CallerEvents ==
    { CallerEvent(q[1], q[2], q[3], q[4]) :
        q \in {EmptyString, GENESIS_HASH, last_hash}
                 \X Actors \X Payloads \X BOOLEAN }

\* Ledger::last_hash(&self)
Ledger_last_hash ==
    /\ crate = "mem"
    /\ ret' = Ret("last_hash", 0, "Ok")
    /\ UNCHANGED <<crate, file, handles, events, last_hash, deed_log,
                   current_hash, chain, corrupted>>
    /\ UNCHANGED eco_vars
    /\ UNCHANGED fn_vars
    /\ UNCHANGED main_vars

\* Ledger::events_for_actor(&self, actor_id)
Ledger_events_for_actor(actor_id) ==
    /\ crate = "mem"
    /\ ret' = Ret("events_for_actor", Len(events_for_actor(events, actor_id)),
                  "Ok")
    /\ UNCHANGED <<crate, file, handles, events, last_hash, deed_log,
                   current_hash, chain, corrupted>>
    /\ UNCHANGED eco_vars
    /\ UNCHANGED fn_vars
    /\ UNCHANGED main_vars

---------------------------------------------------------------------------
\* SovereigntyCore

\* Faulty variant of log_event: current_hash is not advanced.
log_event_keeps_current_hash(payload) ==
    /\ crate = "sov"
    /\ Len(deed_log) < MaxLen
    /\ LET deed == link_to_prev(
                       Sov_DeedEvent_new(Len(deed_log) + 1, AugmentedCitizen,
                                         payload),
                       current_hash)
       IN  /\ current_hash' = current_hash
           /\ deed_log' = Append(deed_log, deed)
    /\ ret' = Ret("log_event", 0, "Ok")
    /\ UNCHANGED <<crate, file, handles, events, last_hash, chain, corrupted>>
    /\ UNCHANGED eco_vars
    /\ UNCHANGED fn_vars
    /\ UNCHANGED main_vars

\* SovereigntyCore::log_event(&mut self, node, deed_type, context)
log_event(payload) ==
    /\ crate = "sov"
    /\ Len(deed_log) < MaxLen
    /\ LET deed == link_to_prev(
                       Sov_DeedEvent_new(Len(deed_log) + 1, AugmentedCitizen,
                                         payload),
                       current_hash)
       IN  /\ current_hash' = deed.self_hash
           /\ deed_log' = Append(deed_log, deed)
    /\ ret' = Ret("log_event", 0, "Ok")
    /\ UNCHANGED <<crate, file, handles, events, last_hash, chain, corrupted>>
    /\ UNCHANGED eco_vars
    /\ UNCHANGED fn_vars
    /\ UNCHANGED main_vars

---------------------------------------------------------------------------
\* crates/Church-of-FEAR: a caller collecting DeedEvents and validating them

\* The prev_hash values a caller has at hand.
KnownHashes(evs) == {GENESIS_HASH} \cup {evs[i].self_hash : i \in 1..Len(evs)}

\* events.push(DeedEvent::new(prev_hash, ...))
push_new_deed(prev_hash, actor_id, payload) ==
    /\ crate = "fear"
    /\ Len(chain) < MaxLen
    /\ chain' = Append(chain, DeedEvent_new(Len(chain) + 1, prev_hash,
                                            actor_id, payload))
    /\ ret' = Ret("new", 0, "Ok")
    /\ UNCHANGED <<crate, file, handles, events, last_hash, deed_log,
                   current_hash, corrupted>>
    /\ UNCHANGED eco_vars
    /\ UNCHANGED fn_vars
    /\ UNCHANGED main_vars

\* validate_chain(&events)
call_validate_chain ==
    /\ crate = "fear"
    /\ ret' = Ret("validate_chain", 0,
                  IF validate_chain(chain) THEN "true" ELSE "false")
    /\ UNCHANGED <<crate, file, handles, events, last_hash, deed_log,
                   current_hash, chain, corrupted>>
    /\ UNCHANGED eco_vars
    /\ UNCHANGED fn_vars
    /\ UNCHANGED main_vars

---------------------------------------------------------------------------

Next ==
    \/ \E h \in Handles : open_or_create(h)
    \/ \E h \in Handles, x \in Payloads : MoralLedger_append(h, x)
    \/ \E event \in CallerEvents : Ledger_append(event)
    \/ Ledger_last_hash
    \/ \E a \in Actors : Ledger_events_for_actor(a)
    \/ \E x \in Payloads : log_event(x)
    \/ \E p \in KnownHashes(chain), a \in Actors, x \in Payloads :
          push_new_deed(p, a, x)
    \/ call_validate_chain

Spec == Init /\ [][Next]_vars

---------------------------------------------------------------------------
\* An outside party editing stored records (manual corruption)

OtherPayload(x) == CHOOSE y \in Payloads : y # x

\* A slice as successive appends produce it: the first record created on
\* the genesis hash, each further one on its predecessor's self_hash.
AppendProduced(evs) ==
    \A i \in 1..Len(evs) :
        evs[i] = DeedEvent_new(
                     evs[i].event_id,
                     IF i = 1 THEN GENESIS_HASH ELSE evs[i - 1].self_hash,
                     evs[i].actor_id, evs[i].payload)

\* The payload of record i of an append-produced slice is changed; the
\* editor either leaves the stored self_hash or sets it anew as
\* DeedEvent::new would.
corrupt_chain(i, rehash) ==
    /\ crate = "fear"
    /\ corrupted = 0
    /\ i \in 1..Len(chain)
    /\ AppendProduced(chain)
    /\ LET edited == [chain[i] EXCEPT !.payload = OtherPayload(@)]
           stored == IF rehash
                     THEN DeedEvent_new(edited.event_id, edited.prev_hash,
                                        edited.actor_id, edited.payload)
                     ELSE edited
       IN  chain' = [chain EXCEPT ![i] = stored]
    /\ corrupted' = i
    /\ ret' = Ret("edit", 0, "none")
    /\ UNCHANGED <<crate, file, handles, events, last_hash, deed_log,
                   current_hash>>
    /\ UNCHANGED eco_vars
    /\ UNCHANGED fn_vars
    /\ UNCHANGED main_vars

\* The payload of the last record of the ledger file is changed in place,
\* its stored self_hash left as it was.
corrupt_file(i) ==
    /\ crate = "moral"
    /\ corrupted = 0
    /\ i \in 1..Len(file)
    /\ file[i].t = "rec"
    /\ \A j \in (i + 1)..Len(file) : file[j].t # "rec"
    /\ replay(lines(file), 1, GENESIS_HASH).ok
    /\ file' = [file EXCEPT ![i].ev.payload = OtherPayload(@)]
    /\ corrupted' = i
    /\ ret' = Ret("edit", 0, "none")
    /\ UNCHANGED <<crate, handles, events, last_hash, deed_log, current_hash,
                   chain>>
    /\ UNCHANGED eco_vars
    /\ UNCHANGED fn_vars
    /\ UNCHANGED main_vars

Tamper ==
    \/ \E i \in 1..MaxLen, rehash \in BOOLEAN : corrupt_chain(i, rehash)
    \/ \E i \in 1..(2 * MaxLen) : corrupt_file(i)

SpecTamper == Init /\ [][Next \/ Tamper]_vars

---------------------------------------------------------------------------
\* crates/ecofairness-guard: EcoFairnessGuard
\*
\* f32 values are counted in hundredths: 100 is 1.0, 25 is 0.25, 15000 is
\* 150.0.  A quotient is never rounded: a comparison with a quotient on one
\* side is made after multiplying both sides by the divisor.

\* 1.0
One == 100

\* f32::max
max(a, b) == IF a >= b THEN a ELSE b

Routes == {"XR", "DRONE"}
Classes == {"host", "guest"}
None == "None"

\* TsafeEcoEnvelope (the route is the key it is stored under)
TsafeEcoEnvelope(max_power, max_cumulative_energy, max_compute_fraction) ==
    [max_power |-> max_power,
     max_cumulative_energy |-> max_cumulative_energy,
     max_compute_fraction |-> max_compute_fraction]

\* EquityBounds
EquityBounds(min_share, max_share) ==
    [min_share |-> min_share, max_share |-> max_share]

\* The configurations from_paths may load: an envelope for route XR and
\* none for DRONE, bounds for class host and none for guest.
Configs ==
    { [roh_model |-> [ceiling |-> c],
       tsafe_envelopes |-> [r \in {"XR"} |-> TsafeEcoEnvelope(w, w, f)],
       grace_equity |-> [bounds |-> [k \in {"host"} |-> EquityBounds(10, m)]] ] :
        c \in {20, 30}, w \in {50, 10000}, f \in {40, 100}, m \in {60, 100} }

\* The XRActions a caller may hand in.
XRActions ==
    [route : Routes,
     lifeforcecost : {20, 50, 15000},
     rohbefore : {20, 30},
     rohafterestimate : {20, 25, 40},
     equity_class : Classes \cup {None}]

\* The ResourceUsageSnapshots a caller may hand in; class_shares has an
\* entry for host or none at all.
ResourceUsageSnapshots ==
    { [total_power_budget |-> b,
       total_compute_capacity |-> k,
       current_power_draw |-> p,
       current_cumulative_energy |-> e,
       current_compute_fraction |-> f,
       class_shares |-> [c \in s |-> 50]] :
        b \in {0, 200}, k \in {0, 200}, p \in {0, 30}, e \in {0, 30},
        f \in {0, 30}, s \in {{}, {"host"}} }

\* snapshot.current_power_draw + action.lifeforcecost
projected_power(a, snap) == snap.current_power_draw + a.lifeforcecost

\* snapshot.current_cumulative_energy + action.lifeforcecost
projected_energy(a, snap) == snap.current_cumulative_energy + a.lifeforcecost

\* projected_compute > bound, where projected_compute is
\* current_compute_fraction + lifeforcecost / total_compute_capacity.max(1.0)
projected_compute_gt(a, snap, bound) ==
    LET capacity == max(snap.total_compute_capacity, One)
    IN  snap.current_compute_fraction * capacity + One * a.lifeforcecost
            > bound * capacity

\* Faulty variant of check_route_envelope: energy is looked at before power.
check_route_envelope_energy_first(c, a, snap) ==
    IF a.route \notin DOMAIN c.tsafe_envelopes
    THEN "ECO_NO_ROUTE_ENV"
    ELSE LET env == c.tsafe_envelopes[a.route]
         IN  IF projected_energy(a, snap) > env.max_cumulative_energy
             THEN "ECO_ENERGY_EXCEEDED"
             ELSE IF projected_power(a, snap) > env.max_power
             THEN "ECO_POWER_EXCEEDED"
             ELSE IF projected_compute_gt(a, snap, env.max_compute_fraction)
             THEN "ECO_COMPUTE_EXCEEDED"
             ELSE "Ok"

\* EcoFairnessGuard::check_route_envelope: "Ok" or the code of the GuardError
check_route_envelope(c, a, snap) ==
    IF a.route \notin DOMAIN c.tsafe_envelopes
    THEN "ECO_NO_ROUTE_ENV"
    ELSE LET env == c.tsafe_envelopes[a.route]
         IN  IF projected_power(a, snap) > env.max_power
             THEN "ECO_POWER_EXCEEDED"
             ELSE IF projected_energy(a, snap) > env.max_cumulative_energy
             THEN "ECO_ENERGY_EXCEEDED"
             ELSE IF projected_compute_gt(a, snap, env.max_compute_fraction)
             THEN "ECO_COMPUTE_EXCEEDED"
             ELSE "Ok"

\* snapshot.class_shares.get(class_name).cloned().unwrap_or(0.0)
current_share(snap, class_name) ==
    IF class_name \in DOMAIN snap.class_shares
    THEN snap.class_shares[class_name] ELSE 0

\* projected_share > bound, where projected_share is
\* current_share + lifeforcecost / total_power_budget.max(1.0)
projected_share_gt(a, snap, bound) ==
    LET budget == max(snap.total_power_budget, One)
    IN  current_share(snap, a.equity_class) * budget + One * a.lifeforcecost
            > bound * budget

\* Faulty variant of check_equity_bounds: max_share is not looked at.
check_equity_bounds_without_max(c, a, snap) ==
    IF a.equity_class = None
    THEN "ECO_NO_EQUITY_CLASS"
    ELSE IF a.equity_class \notin DOMAIN c.grace_equity.bounds
    THEN "ECO_UNKNOWN_EQUITY_CLASS"
    ELSE "Ok"

\* Faulty variant of check_equity_bounds: a class without bounds is let
\* through.
check_equity_bounds_unknown_unbounded(c, a, snap) ==
    IF a.equity_class = None
    THEN "ECO_NO_EQUITY_CLASS"
    ELSE IF a.equity_class \notin DOMAIN c.grace_equity.bounds
    THEN "Ok"
    ELSE LET bounds == c.grace_equity.bounds[a.equity_class]
         IN  IF projected_share_gt(a, snap, bounds.max_share)
             THEN "ECO_EQUITY_MAX_EXCEEDED"
             ELSE "Ok"

\* EcoFairnessGuard::check_equity_bounds; the min_share branch has an empty
\* body.
check_equity_bounds(c, a, snap) ==
    IF a.equity_class = None
    THEN "ECO_NO_EQUITY_CLASS"
    ELSE IF a.equity_class \notin DOMAIN c.grace_equity.bounds
    THEN "ECO_UNKNOWN_EQUITY_CLASS"
    ELSE LET bounds == c.grace_equity.bounds[a.equity_class]
         IN  IF projected_share_gt(a, snap, bounds.max_share)
             THEN "ECO_EQUITY_MAX_EXCEEDED"
             ELSE "Ok"

\* EcoFairnessGuard::check_roh_ecofairness; the weights branch has an empty
\* body.
check_roh_ecofairness(c, a) ==
    IF a.rohafterestimate > c.roh_model.ceiling
    THEN "ROH_CEILING"
    ELSE IF a.rohafterestimate > a.rohbefore
    THEN "ROH_MONOTONE"
    ELSE "Ok"

\* EcoFairnessGuard::check: each of the three calls ends in `?`.
check(c, a, snap) ==
    IF check_route_envelope(c, a, snap) # "Ok"
    THEN check_route_envelope(c, a, snap)
    ELSE IF check_equity_bounds(c, a, snap) # "Ok"
    THEN check_equity_bounds(c, a, snap)
    ELSE check_roh_ecofairness(c, a)

\* No ledger of the four ledger crates is in use.
NoLedgers ==
    /\ file = <<>>
    /\ handles = [h \in Handles |-> ClosedHandle]
    /\ events = <<>>
    /\ last_hash = EmptyString
    /\ deed_log = <<>>
    /\ current_hash = GENESIS_HASH
    /\ chain = <<>>
    /\ corrupted = 0
    /\ ret = Ret("none", 0, "none")

\* A guard built by from_paths, and the action and the snapshot of the call
\* to come.
InitGuard ==
    /\ crate = "ecofairness-guard"
    /\ NoLedgers
    /\ cfg \in Configs
    /\ action \in XRActions
    /\ snapshot \in ResourceUsageSnapshots
    /\ result = "none"
    /\ ECO_FAIRNESS_SPEC = <<>>
    /\ CURRENT_USAGE = <<>>
    /\ usage_lock = <<>>
    /\ calls = <<>>
    /\ args = <<>>
    /\ returned = "none"
    /\ NoMainLoop

\* guard.check(&action, &snapshot): self, action and snapshot are shared
\* references, the call leaves them as they are.
EcoFairnessGuard_check ==
    /\ crate = "ecofairness-guard"
    /\ result = "none"
    /\ result' = check(cfg, action, snapshot)
    /\ UNCHANGED <<cfg, action, snapshot>>
    /\ UNCHANGED <<ECO_FAIRNESS_SPEC, CURRENT_USAGE, usage_lock, calls>>
    /\ UNCHANGED ledger_vars
    /\ UNCHANGED fn_vars
    /\ UNCHANGED main_vars

\* guard.check_for_gate(&action, &snapshot)
check_for_gate ==
    /\ crate = "ecofairness-guard"
    /\ result = "none"
    /\ result' = check(cfg, action, snapshot)
    /\ UNCHANGED <<cfg, action, snapshot>>
    /\ UNCHANGED <<ECO_FAIRNESS_SPEC, CURRENT_USAGE, usage_lock, calls>>
    /\ UNCHANGED ledger_vars
    /\ UNCHANGED fn_vars
    /\ UNCHANGED main_vars

NextGuard ==
    \/ EcoFairnessGuard_check
    \/ check_for_gate

SpecGuard == InitGuard /\ [][NextGuard]_vars

---------------------------------------------------------------------------
\* auto_church/ecofairness_guardian: GraceEquityKernel
\*
\* check_route is called from several threads on one CURRENT_USAGE map.  A
\* call goes in steps: the checks that read ECO_FAIRNESS_SPEC only, then
\* each CURRENT_USAGE.entry(), which waits for the write lock of the key's
\* shard.  f64 values are counted in hundredths where they are fractions
\* (RoH) and in units otherwise.

Threads == {1, 2}
Subjects == {"alice", "bob", "carol"}
RequestRoutes == {"XR", "ALTAR", "FREE"}
Shards == {1, 2}

\* The shard a key hashes to (DashMap::determine_map): alice and bob share
\* one.
shard_of(subject) == IF subject = "carol" THEN 2 ELSE 1

\* EcoEnvelope
EcoEnvelope(max_power_watts, max_emissions_gco2eq, max_compute_cycles) ==
    [max_power_watts |-> max_power_watts,
     max_emissions_gco2eq |-> max_emissions_gco2eq,
     max_compute_cycles |-> max_compute_cycles,
     priority_uplift_if_eco_positive |-> FALSE]

\* EcoEnvelope::default(), the value or_default() inserts
EcoEnvelope_default == EcoEnvelope(0, 0, 0)

\* The demands EcoEnvelope::from_action hands to the kernel; the f64 fields
\* may be negative.
Demands == {EcoEnvelope(60, 2, 1), EcoEnvelope(150, -1, 3)}

\* self.roh.current_value(), as the RoH model of the node reports it
RohValues == {30, 40}

\* The shards EcoFairnessSpec::load may find in config/.eco-fairness.aln:
\* a budget for route XR and none for FREE, ALTAR an altar route, with or
\* without a minimum for alice.
EcoFairnessSpecs ==
    { [global_roh_ceiling |-> 30,
       global_eco_budget |-> EcoEnvelope(1000, 10, 10),
       per_route_budgets |-> [r \in {"XR"} |-> EcoEnvelope(100, 1, 2)],
       per_subject_minimums |-> [u \in m |-> EcoEnvelope(0, 0, 2)],
       altar_routes |-> <<"ALTAR">>] : m \in {{}, {"alice"}} }

\* The call of a thread: its arguments, where it stands ("entry" before the
\* entry() of line 119, "commit" before that of line 134, "idle" outside the
\* function) and what it returned.
Call(pc, subject, route, demand, res) ==
    [pc |-> pc, subject |-> subject, route |-> route, demand |-> demand,
     res |-> res]

\* A thread that has not called check_route yet.
NoCall == Call("idle", "", "", EcoEnvelope_default, "none")

\* spec.altar_routes.contains(&route.to_string())
contains(v, x) == \E i \in 1..Len(v) : v[i] = x

\* Faulty variant of or_default: the map is cleared before the insert.
or_default_on_cleared_map(map, subject) ==
    [u \in {subject} |-> EcoEnvelope_default]

\* CURRENT_USAGE.entry(subject).or_default(): the map with an entry for the
\* subject.
or_default(map, subject) ==
    IF subject \in DOMAIN map
    THEN map
    ELSE [u \in DOMAIN map \cup {subject} |->
              IF u = subject THEN EcoEnvelope_default ELSE map[u]]

\* The process starts with the shard loaded, an empty map, no thread in a
\* call.
InitGek ==
    /\ crate = "ecofairness_guardian"
    /\ NoLedgers
    /\ cfg = <<>>
    /\ action = <<>>
    /\ snapshot = <<>>
    /\ result = "none"
    /\ ECO_FAIRNESS_SPEC \in EcoFairnessSpecs
    /\ CURRENT_USAGE = <<>>
    /\ usage_lock = [s \in Shards |-> 0]
    /\ calls = [t \in Threads |-> NoCall]
    /\ args = <<>>
    /\ returned = "none"
    /\ NoMainLoop

\* check_route without the test of altar_routes.
check_route_without_altar(t, subject, route, demand, current_value) ==
    /\ crate = "ecofairness_guardian"
    /\ calls[t].pc = "idle"
    /\ LET spec == ECO_FAIRNESS_SPEC
           res == IF current_value > spec.global_roh_ceiling
                  THEN "RohCeilingBreach"
                  ELSE IF /\ route \in DOMAIN spec.per_route_budgets
                          /\ demand.max_power_watts
                                 > spec.per_route_budgets[route].max_power_watts
                  THEN "BudgetExceeded"
                  ELSE "none"
       IN  calls' = [calls EXCEPT ![t] =
                        Call(IF res = "none" THEN "entry" ELSE "idle",
                             subject, route, demand, res)]
    /\ UNCHANGED <<ECO_FAIRNESS_SPEC, CURRENT_USAGE, usage_lock>>
    /\ UNCHANGED <<cfg, action, snapshot, result>>
    /\ UNCHANGED ledger_vars
    /\ UNCHANGED fn_vars
    /\ UNCHANGED main_vars

\* check_route with the per-route budget looked at before the RoH ceiling.
check_route_budget_first(t, subject, route, demand, current_value) ==
    /\ crate = "ecofairness_guardian"
    /\ calls[t].pc = "idle"
    /\ LET spec == ECO_FAIRNESS_SPEC
           res == IF /\ route \in DOMAIN spec.per_route_budgets
                     /\ demand.max_power_watts
                            > spec.per_route_budgets[route].max_power_watts
                  THEN "BudgetExceeded"
                  ELSE IF current_value > spec.global_roh_ceiling
                  THEN "RohCeilingBreach"
                  ELSE IF contains(spec.altar_routes, route)
                  THEN "AltarRequiresEvolve"
                  ELSE "none"
       IN  calls' = [calls EXCEPT ![t] =
                        Call(IF res = "none" THEN "entry" ELSE "idle",
                             subject, route, demand, res)]
    /\ UNCHANGED <<ECO_FAIRNESS_SPEC, CURRENT_USAGE, usage_lock>>
    /\ UNCHANGED <<cfg, action, snapshot, result>>
    /\ UNCHANGED ledger_vars
    /\ UNCHANGED fn_vars
    /\ UNCHANGED main_vars

\* kernel.check_route(subject, route, demand) called on thread t, up to the
\* first CURRENT_USAGE.entry(): ECO_FAIRNESS_SPEC.read() (nothing ever takes
\* the write side), then checks 1 to 3.  gek_check and EcoFairnessGuard::check
\* of this crate pass their arguments on to it.
check_route(t, subject, route, demand, current_value) ==
    /\ crate = "ecofairness_guardian"
    /\ calls[t].pc = "idle"
    /\ LET spec == ECO_FAIRNESS_SPEC
           res == IF current_value > spec.global_roh_ceiling
                  THEN "RohCeilingBreach"
                  ELSE IF /\ route \in DOMAIN spec.per_route_budgets
                          /\ demand.max_power_watts
                                 > spec.per_route_budgets[route].max_power_watts
                  THEN "BudgetExceeded"
                  ELSE IF contains(spec.altar_routes, route)
                  THEN "AltarRequiresEvolve"
                  ELSE "none"
       IN  calls' = [calls EXCEPT ![t] =
                        Call(IF res = "none" THEN "entry" ELSE "idle",
                             subject, route, demand, res)]
    /\ UNCHANGED <<ECO_FAIRNESS_SPEC, CURRENT_USAGE, usage_lock>>
    /\ UNCHANGED <<cfg, action, snapshot, result>>
    /\ UNCHANGED ledger_vars
    /\ UNCHANGED fn_vars
    /\ UNCHANGED main_vars

\* CURRENT_USAGE.entry(subject.to_string()).or_default() on thread t and
\* what the call does up to its next entry() or its return.  entry() takes
\* the write lock of the key's shard and waits while any thread holds it;
\* the RefMut it gives back keeps the lock until it is dropped.
\*   At line 119: the RefMut is bound to `usage`, which lives to the end of
\* the function.  Checks 4 and 5 follow (is_viable is the answer of the
\* viability kernel); a denial returns and drops `usage`.
\*   At line 134: the demand is added to the entry, Ok is returned, and both
\* RefMuts are dropped.
CURRENT_USAGE_entry(t, is_viable) ==
    LET call == calls[t]
        shard == shard_of(call.subject)
        usage == or_default(CURRENT_USAGE, call.subject)[call.subject]
        minimums == ECO_FAIRNESS_SPEC.per_subject_minimums
    IN  /\ crate = "ecofairness_guardian"
        /\ call.pc \in {"entry", "commit"}
        /\ usage_lock[shard] = 0
        /\ IF call.pc = "entry"
           THEN /\ CURRENT_USAGE' = or_default(CURRENT_USAGE, call.subject)
                /\ IF /\ call.subject \in DOMAIN minimums
                      /\ usage.max_compute_cycles
                           + call.demand.max_compute_cycles
                             < minimums[call.subject].max_compute_cycles
                   THEN /\ calls' = [calls EXCEPT ![t].pc = "idle",
                                                  ![t].res = "BelowMinimum"]
                        /\ UNCHANGED usage_lock
                   ELSE IF ~is_viable
                   THEN /\ calls' = [calls EXCEPT ![t].pc = "idle",
                                                  ![t].res = "ViabilityFailure"]
                        /\ UNCHANGED usage_lock
                   ELSE /\ calls' = [calls EXCEPT ![t].pc = "commit"]
                        /\ usage_lock' = [usage_lock EXCEPT ![shard] = t]
           ELSE /\ CURRENT_USAGE' =
                       [or_default(CURRENT_USAGE, call.subject)
                          EXCEPT ![call.subject] =
                            EcoEnvelope(
                              usage.max_power_watts
                                + call.demand.max_power_watts,
                              usage.max_emissions_gco2eq
                                + call.demand.max_emissions_gco2eq,
                              usage.max_compute_cycles
                                + call.demand.max_compute_cycles)]
                /\ calls' = [calls EXCEPT ![t].pc = "idle", ![t].res = "Ok"]
                /\ UNCHANGED usage_lock
        /\ UNCHANGED ECO_FAIRNESS_SPEC
        /\ UNCHANGED <<cfg, action, snapshot, result>>
        /\ UNCHANGED ledger_vars
        /\ UNCHANGED fn_vars
        /\ UNCHANGED main_vars

NextGek ==
    \/ \E t \in Threads, subject \in Subjects, route \in RequestRoutes,
          demand \in Demands, current_value \in RohValues :
          check_route(t, subject, route, demand, current_value)
    \/ \E t \in Threads, is_viable \in BOOLEAN : CURRENT_USAGE_entry(t, is_viable)

SpecGek == InitGek /\ [][NextGek]_vars

\* Threads are scheduled: a call that can take its next step takes it.
SpecGekFair ==
    SpecGek /\ \A t \in Threads :
                  WF_vars(\E is_viable \in BOOLEAN : CURRENT_USAGE_entry(t, is_viable))

---------------------------------------------------------------------------
\* Construction of the guards from their configuration files:
\* GraceEquityKernel::from_path (crates/ecofairness-guard kernel.rs),
\* EcoFairnessGuard::from_paths (crates/ecofairness-guard lib.rs) and
\* EcoFairnessSpec::load (auto_church/ecofairness_guardian lib.rs).
\*
\* A file is modelled by what reading and parsing it gives: it cannot be
\* read, its text is not the JSON of the expected type, or it is the JSON of
\* a value of that type.  Shares and fractions are f32 in hundredths; JSON
\* holds no NaN and no infinity.

MaxClasses == 2

\* The f32 values a share or a fraction of a file may hold.
ShareValues == {-10, 0, 60, 110}

File(state, json) == [state |-> state, json |-> json]

Unreadable == File("unreadable", <<>>)

Malformed == File("malformed", <<>>)

\* EquityClassSpec of kernel.rs
EquityClassSpec(name, min_share, max_share) ==
    [name |-> name, min_share |-> min_share, max_share |-> max_share]

\* RouteEnvelope of kernel.rs
RouteEnvelope(route, max_power_fraction, max_compute_fraction) ==
    [route |-> route, max_power_fraction |-> max_power_fraction,
     max_compute_fraction |-> max_compute_fraction]

\* GraceEquityKernelSpec of kernel.rs, as parsed, with up to max_classes
\* classes
GraceEquityKernelSpecs(max_classes) ==
    LET cls == { EquityClassSpec(n, lo, hi) :
                     n \in Classes, lo \in ShareValues, hi \in ShareValues }
        envs == { RouteEnvelope("XR", p, c) :
                     p \in {-10, 50, 110}, c \in {-10, 50, 110} }
    IN  { [classes |-> cs, node_routes |-> rs] :
            cs \in UNION { [1..n -> cls] : n \in 0..max_classes },
            rs \in UNION { [1..n -> envs] : n \in 0..1 } }

\* Result<_, _> of a constructor: Ok with the value built, or the error
\* with the item its message names.
Loaded(value) == [tag |-> "Ok", item |-> "", value |-> value]

LoadError(tag, item) == [tag |-> tag, item |-> item, value |-> <<>>]

NotReturned == [tag |-> "none", item |-> "", value |-> <<>>]

\* HashMap::insert
insert(map, k, v) ==
    [x \in DOMAIN map \cup {k} |-> IF x = k THEN v ELSE map[x]]

\* `(0.0..=1.0).contains(&x)`
in_unit_range(x) == 0 <= x /\ x <= One

\* The loop of from_path over spec.classes from index i on, with sum_min and
\* the map built so far.
RECURSIVE validate_classes(_, _, _, _)
validate_classes(cs, i, sum_min, classes) ==
    IF i > Len(cs)
    THEN Loaded([sum_min |-> sum_min, classes |-> classes])
    ELSE LET c == cs[i]
         IN  IF ~in_unit_range(c.min_share) THEN LoadError("Invariant", c.name)
             ELSE IF ~in_unit_range(c.max_share)
             THEN LoadError("Invariant", c.name)
             ELSE IF c.min_share > c.max_share
             THEN LoadError("Invariant", c.name)
             ELSE IF c.name \in DOMAIN classes
             THEN LoadError("Invariant", c.name)
             ELSE validate_classes(cs, i + 1, sum_min + c.min_share,
                      insert(classes, c.name,
                             [min_share |-> c.min_share,
                              max_share |-> c.max_share]))

\* The loop of from_path over spec.node_routes.
RECURSIVE validate_routes(_, _, _)
validate_routes(rs, i, node_routes) ==
    IF i > Len(rs)
    THEN Loaded(node_routes)
    ELSE LET env == rs[i]
         IN  IF \/ env.max_power_fraction < 0
                \/ env.max_power_fraction > One
                \/ env.max_compute_fraction < 0
                \/ env.max_compute_fraction > One
             THEN LoadError("Invariant", env.route)
             ELSE validate_routes(rs, i + 1, insert(node_routes, env.route, env))

\* from_path without the test of sum_min after the loop.
from_path_without_sum(f) ==
    IF f.state = "unreadable" THEN LoadError("Io", "")
    ELSE IF f.state = "malformed" THEN LoadError("Parse", "")
    ELSE IF Len(f.json.classes) = 0
    THEN LoadError("Invariant", "classes")
    ELSE LET cl == validate_classes(f.json.classes, 1, 0, <<>>)
         IN  IF cl.tag # "Ok" THEN LoadError(cl.tag, cl.item)
             ELSE LET nr == validate_routes(f.json.node_routes, 1, <<>>)
                  IN  IF nr.tag # "Ok" THEN nr
                      ELSE Loaded([classes |-> cl.value.classes,
                                   node_routes |-> nr.value])

\* GraceEquityKernel::from_path.  `sum_min > 1.0 + 1e-6` in hundredths:
\* 1e-6 is One / 1000000.
from_path(f) ==
    IF f.state = "unreadable" THEN LoadError("Io", "")
    ELSE IF f.state = "malformed" THEN LoadError("Parse", "")
    ELSE IF Len(f.json.classes) = 0
    THEN LoadError("Invariant", "classes")
    ELSE LET cl == validate_classes(f.json.classes, 1, 0, <<>>)
         IN  IF cl.tag # "Ok" THEN LoadError(cl.tag, cl.item)
             ELSE IF cl.value.sum_min * 1000000 > One * 1000000 + One
             THEN LoadError("Invariant", "sum(min_share)")
             ELSE LET nr == validate_routes(f.json.node_routes, 1, <<>>)
                  IN  IF nr.tag # "Ok" THEN nr
                      ELSE Loaded([classes |-> cl.value.classes,
                                   node_routes |-> nr.value])

\* The three files from_paths reads, as parsed: the RohModel, the map of
\* TsafeEcoEnvelopes and the guard's GraceEquityKernel (class -> bounds).
RohFiles == {Unreadable, Malformed, File("json", [ceiling |-> 30])}

TsafeFiles ==
    {Unreadable, Malformed} \cup
    { File("json", [r \in {"XR"} |-> TsafeEcoEnvelope(50, 50, f)]) :
          f \in {40, 150} }

EcoFairnessFiles ==
    {Unreadable, Malformed} \cup
    { File("json", [bounds |-> [k \in {"host"} |-> EquityBounds(lo, hi)]]) :
          lo \in ShareValues, hi \in ShareValues }

\* EcoFairnessGuard::from_paths: each file is read and parsed in turn, `?`
\* returns the first failure, and the three values go into the guard as
\* they were parsed.
from_paths(roh, tsafe, eco) ==
    IF roh.state = "unreadable" THEN LoadError("Io", "roh")
    ELSE IF roh.state = "malformed" THEN LoadError("Parse", "roh")
    ELSE IF tsafe.state = "unreadable" THEN LoadError("Io", "tsafe")
    ELSE IF tsafe.state = "malformed" THEN LoadError("Parse", "tsafe")
    ELSE IF eco.state = "unreadable" THEN LoadError("Io", "eco")
    ELSE IF eco.state = "malformed" THEN LoadError("Parse", "eco")
    ELSE Loaded([cfg |-> [roh_model |-> roh.json,
                          tsafe_envelopes |-> tsafe.json,
                          grace_equity |-> eco.json]])

\* The file EcoFairnessSpec::load reads.
EcoFairnessSpecFiles ==
    {Unreadable, Malformed} \cup { File("json", s) : s \in EcoFairnessSpecs }

\* EcoFairnessSpec::load: File::open, serde_json::from_reader, Ok(spec).
load(f) ==
    IF f.state = "unreadable" THEN LoadError("Io", "")
    ELSE IF f.state = "malformed" THEN LoadError("Parse", "")
    ELSE Loaded(f.json)

\* Two records as append writes them one after the other.
FirstRecord ==
    finalize_hash_chain(DeedEvent(1, EmptyString, EmptyString, User, 1),
                        GENESIS_HASH)

SecondRecord ==
    finalize_hash_chain(DeedEvent(2, EmptyString, EmptyString, User, 2),
                        FirstRecord.self_hash)

\* The ledger files open_or_create may find at its path: whole records,
\* parts of records and line ends in any order, blank lines included, up to
\* max_pieces pieces.
LedgerFiles(max_pieces) ==
    UNION { [1..n -> {RecTok(FirstRecord), RecTok(SecondRecord), PartTok,
                      NlTok}] : n \in 0..max_pieces }

\* The call to come: the constructor and the files at its paths.
LoadCalls(max_classes, max_pieces) ==
    { [fn |-> "from_path", files |-> <<File("json", s)>>] :
          s \in GraceEquityKernelSpecs(max_classes) }
    \cup { [fn |-> "from_path", files |-> <<f>>] : f \in {Unreadable, Malformed} }
    \cup { [fn |-> "from_paths", files |-> <<r, t, e>>] :
               r \in RohFiles, t \in TsafeFiles, e \in EcoFairnessFiles }
    \cup { [fn |-> "load", files |-> <<f>>] : f \in EcoFairnessSpecFiles }
    \cup { [fn |-> "open_or_create", files |-> <<f>>] :
               f \in LedgerFiles(max_pieces) }

InitLoad ==
    /\ crate = "config"
    /\ NoLedgers
    /\ cfg = <<>>
    /\ action = <<>>
    /\ snapshot = <<>>
    /\ result = "none"
    /\ ECO_FAIRNESS_SPEC = <<>>
    /\ CURRENT_USAGE = <<>>
    /\ usage_lock = <<>>
    /\ calls = <<>>
    /\ args \in LoadCalls(MaxClasses, MaxLen + 1)
    /\ returned = NotReturned
    /\ NoMainLoop

GraceEquityKernel_from_path ==
    /\ crate = "config"
    /\ args.fn = "from_path"
    /\ returned.tag = "none"
    /\ returned' = from_path(args.files[1])
    /\ UNCHANGED args
    /\ UNCHANGED main_vars
    /\ UNCHANGED ledger_vars
    /\ UNCHANGED eco_vars

EcoFairnessGuard_from_paths ==
    /\ crate = "config"
    /\ args.fn = "from_paths"
    /\ returned.tag = "none"
    /\ returned' = from_paths(args.files[1], args.files[2], args.files[3])
    /\ UNCHANGED args
    /\ UNCHANGED main_vars
    /\ UNCHANGED ledger_vars
    /\ UNCHANGED eco_vars

EcoFairnessSpec_load ==
    /\ crate = "config"
    /\ args.fn = "load"
    /\ returned.tag = "none"
    /\ returned' = load(args.files[1])
    /\ UNCHANGED args
    /\ UNCHANGED main_vars
    /\ UNCHANGED ledger_vars
    /\ UNCHANGED eco_vars

\* MoralLedger::open_or_create(path) on a file that is already there.
MoralLedger_open_or_create ==
    /\ crate = "config"
    /\ args.fn = "open_or_create"
    /\ returned.tag = "none"
    /\ \/ \* opening the file or reading a line fails
          returned' = LoadError("Io", "")
       \/ LET r == replay(lines(args.files[1]), 1, GENESIS_HASH)
          IN  returned' = IF r.ok
                          THEN Loaded([last_hash |-> r.last_hash])
                          ELSE LoadError("InvalidData", "")
    /\ UNCHANGED args
    /\ UNCHANGED main_vars
    /\ UNCHANGED ledger_vars
    /\ UNCHANGED eco_vars

NextLoad ==
    \/ MoralLedger_open_or_create
    \/ GraceEquityKernel_from_path
    \/ EcoFairnessGuard_from_paths
    \/ EcoFairnessSpec_load

SpecLoad == InitLoad /\ [][NextLoad]_vars

---------------------------------------------------------------------------
\* The token rules: ChurchAccountState (src/ledger/account.rs) over the
\* in-memory Ledger, and mint_church (crates/Church-of-FEAR token/mint.rs).
\*
\* f64 scores are counted in hundredths (One is 1.0); discount factors are
\* multiples of 0.1, so that every product below is exact.  A bioload delta
\* is counted in thousandths.

MaxDeeds == 2

BioloadUnit == 1000

\* The fields of a DeedEvent the token rules read.
Deed(actor_id, timestamp, deed_type, tags, ethics_flags, life_harm_flag) ==
    [actor_id |-> actor_id, timestamp |-> timestamp, deed_type |-> deed_type,
     tags |-> tags, ethics_flags |-> ethics_flags,
     life_harm_flag |-> life_harm_flag]

\* Utc::now().timestamp() as u64 at the time of the call
Now == 1

\* The deeds a ledger may hold: deed_type and tags as in the repository's
\* test (type ecological_sustainability, tag tree_planting), with the tag
\* ecological_sustainability, and of another type.
Deeds ==
    { Deed(a, ts, k[1], k[2], fl, h) :
        a \in {"test", "other"}, ts \in {0, 2},
        k \in { <<"ecological_sustainability", <<"tree_planting">> >>,
                <<"ecological_sustainability", <<"ecological_sustainability">> >>,
                <<"test", <<"ecological_sustainability">> >> },
        fl \in {<<>>, <<"coercion">>}, h \in BOOLEAN }

\* The values time_discount_factor may return.
Discounts == {0, 50, 100}

\* DeedEvent::is_good_deed of src/ledger
is_good_deed(event) ==
    /\ ~event.life_harm_flag
    /\ Len(event.ethics_flags) = 0
    /\ \E i \in 1..Len(event.tags) :
           event.tags[i] \in {"ecological_sustainability",
                              "homelessness_relief", "math_science_education"}

\* `now - event.timestamp` on u64: below zero it wraps where overflow checks
\* are off.
age_of(event) ==
    IF event.timestamp <= Now THEN Now - event.timestamp ELSE -1

\* The loop of compute_from_ledger from index i on: good_deeds and
\* harm_flags so far; time_discount_factor maps an age to its factor.
RECURSIVE account_loop(_, _, _, _, _)
account_loop(evs, i, good_deeds, harm_flags, time_discount_factor) ==
    IF i > Len(evs)
    THEN [good_deeds |-> good_deeds, harm_flags |-> harm_flags]
    ELSE account_loop(evs, i + 1,
             IF is_good_deed(evs[i])
             THEN good_deeds + time_discount_factor[age_of(evs[i])]
             ELSE good_deeds,
             IF evs[i].life_harm_flag THEN harm_flags + 1 ELSE harm_flags,
             time_discount_factor)

min(a, b) == IF a < b THEN a ELSE b

OptionSome(value) == [tag |-> "Some", item |-> "", value |-> value]

OptionNone == [tag |-> "None", item |-> "", value |-> <<>>]

Panicked == [tag |-> "panic", item |-> "", value |-> <<>>]

\* ChurchAccountState::compute_from_ledger.  With overflow checks on, the
\* subtraction panics at the first event of the actor stamped after now.
compute_from_ledger(ledger, actor_id, time_discount_factor, overflow_checks) ==
    LET evs == events_for_actor(ledger, actor_id)
    IN  IF Len(evs) = 0 THEN OptionNone
        ELSE IF overflow_checks
                /\ \E i \in 1..Len(evs) : evs[i].timestamp > Now
        THEN Panicked
        ELSE LET sums == account_loop(evs, 1, 0, 0, time_discount_factor)
                 good_deeds_norm == min(sums.good_deeds, One)
                 harm_norm == min((sums.harm_flags * One) \div 10, One)
             IN  OptionSome(
                   [cumulative_good_deeds |-> sums.good_deeds,
                    cumulative_harm_flags |-> sums.harm_flags,
                    eco_score |-> (70 * good_deeds_norm
                                     + 30 * (One - harm_norm)) \div One,
                    debt_ceiling |-> One - harm_norm,
                    church_balance |-> (sums.good_deeds * 10) \div One])

\* ChurchAccountState::can_mint_church
can_mint_church(self) ==
    self.cumulative_harm_flags = 0 /\ self.eco_score > 50

\* ChurchAccountState::compute_mint_amount
compute_mint_amount(self) == self.eco_score * 10

\* f64::abs
abs(x) == IF x < 0 THEN 0 - x ELSE x

\* DeedEvent::compute_church_reward of crates/Church-of-FEAR, the name
\* `biolad_delta` of line 66 read as the parameter bioload_delta.  `as u64`
\* drops the fraction.
compute_church_reward(self, bioload_delta) ==
    IF self.life_harm_flag \/ Len(self.ethics_flags) # 0 THEN 0
    ELSE IF bioload_delta < 0 /\ self.deed_type = "ecological_sustainability"
    THEN (abs(bioload_delta) * 100) \div BioloadUnit
    ELSE 0

\* mint_church
mint_church(event, metrics) ==
    compute_church_reward(event, metrics.bioload_delta)

\* BioloadMetrics, of which mint_church reads bioload_delta: -0.5 as in the
\* repository's test, -0.005, 0.0, 0.3.
BioloadMetrics == { [bioload_delta |-> d] : d \in {-500, -5, 0, 300} }

\* The call to come, on a ledger of up to max_deeds deeds.
TokenCalls(max_deeds) ==
    { [fn |-> "compute_from_ledger", ledger |-> evs, actor_id |-> "test"] :
          evs \in UNION { [1..n -> Deeds] : n \in 0..max_deeds } }
    \cup { [fn |-> "mint_church", event |-> e, metrics |-> m] :
               e \in Deeds, m \in BioloadMetrics }

\* The longest role list handed to forgiveness_quorum.
MaxRoles == 3

\* let required = vec![..]
required == <<"Host", "OrganicCPUOwner", "Regulator", "SovereignKernel">>

\* roles.iter().filter(|r| required.contains(&r.as_str())).count()
RECURSIVE filter_count(_)
filter_count(roles) ==
    IF Len(roles) = 0 THEN 0
    ELSE (IF \E i \in 1..Len(required) : required[i] = Head(roles)
          THEN 1 ELSE 0) + filter_count(Tail(roles))

\* ChurchAccountState::forgiveness_quorum
forgiveness_quorum(roles, required_quorum) ==
    filter_count(roles) >= required_quorum

\* The calls of forgiveness_quorum to come, on a list of up to max_roles
\* roles.
QuorumCalls(max_roles) ==
    { [fn |-> "forgiveness_quorum", roles |-> roles, required_quorum |-> q] :
          roles \in UNION { [1..n -> {"Host", "Regulator", "Visitor"}] :
                               n \in 0..max_roles },
          q \in 0..max_roles }

InitToken ==
    /\ crate = "token"
    /\ NoLedgers
    /\ cfg = <<>>
    /\ action = <<>>
    /\ snapshot = <<>>
    /\ result = "none"
    /\ ECO_FAIRNESS_SPEC = <<>>
    /\ CURRENT_USAGE = <<>>
    /\ usage_lock = <<>>
    /\ calls = <<>>
    /\ args \in TokenCalls(MaxDeeds) \cup QuorumCalls(MaxRoles)
    /\ returned = NotReturned
    /\ NoMainLoop

\* ChurchAccountState::compute_from_ledger(&ledger, actor_id)
ChurchAccountState_compute_from_ledger(time_discount_factor, overflow_checks) ==
    /\ crate = "token"
    /\ args.fn = "compute_from_ledger"
    /\ returned.tag = "none"
    /\ returned' = compute_from_ledger(args.ledger, args.actor_id,
                                       time_discount_factor, overflow_checks)
    /\ UNCHANGED args
    /\ UNCHANGED main_vars
    /\ UNCHANGED ledger_vars
    /\ UNCHANGED eco_vars

\* mint_church(&event, &metrics)
token_mint_church ==
    /\ crate = "token"
    /\ args.fn = "mint_church"
    /\ returned.tag = "none"
    /\ returned' = [tag |-> "u64", item |-> "",
                    value |-> mint_church(args.event, args.metrics)]
    /\ UNCHANGED args
    /\ UNCHANGED main_vars
    /\ UNCHANGED ledger_vars
    /\ UNCHANGED eco_vars

\* ChurchAccountState::forgiveness_quorum(&roles, required_quorum)
ChurchAccountState_forgiveness_quorum ==
    /\ crate = "token"
    /\ args.fn = "forgiveness_quorum"
    /\ returned.tag = "none"
    /\ returned' = [tag |-> "bool", item |-> "",
                    value |-> forgiveness_quorum(args.roles,
                                                 args.required_quorum)]
    /\ UNCHANGED args
    /\ UNCHANGED main_vars
    /\ UNCHANGED ledger_vars
    /\ UNCHANGED eco_vars

NextToken ==
    \/ \E time_discount_factor \in [{-1, 0, 1} -> Discounts],
          overflow_checks \in BOOLEAN :
          ChurchAccountState_compute_from_ledger(time_discount_factor,
                                                 overflow_checks)
    \/ token_mint_church
    \/ ChurchAccountState_forgiveness_quorum

SpecToken == InitToken /\ [][NextToken]_vars

---------------------------------------------------------------------------
\* Governance decisions: can_settle_to_nonrollback (crates/governance-core
\* autonomy.rs) and evaluate_reversal (policyengine reversalconditions.rs).
\*
\* The types of crate::policy, crate::proofs, crate::risk, crate::biosafe,
\* crate::envelope, crate::evidence, crate::sovereign and crate::capability
\* are not among the sources.  A RoleSet is the set of its roles and
\* contains_all is inclusion, a ReversalPolicy is the list of its entries;
\* of a polytope, an envelope, an evidence bundle, a multisig and a
\* capability the context holds what the method called on it answers.

AutonomyTiers ==
    {"SimulationOnly", "HostLocal", "CorridorBound", "EcoNode", "GlobalNet"}

NonRollbackStatuses == {"Experimental", "Provisional", "Settled"}

\* ProofHandle: class and id
ProofHandle(class, id) == [class |-> class, id |-> id]

\* IncidentStats
IncidentStats(total_incidents, sessions_observed) ==
    [total_incidents |-> total_incidents,
     sessions_observed |-> sessions_observed]

\* NonRollbackEvidence; max_incident_rate_per_1k_sessions in incidents per
\* 1000 sessions.
NonRollbackEvidence(horizon, max_rate, stats) ==
    [ceim_proof |-> ProofHandle("CeimMassBalance", 1),
     cpvm_proof |-> ProofHandle("CpvmViability", 2),
     observation_horizon_days |-> horizon,
     max_incident_rate_per_1k_sessions |-> max_rate,
     incident_stats |-> stats]

required_roles ==
    {"HostConsent", "EthicsBoard", "RegulatorQuorum", "EcoNodeOperator"}

\* The requests a caller may assemble.  The incident rates are 5 and 10 per
\* 1000 sessions against a ceiling of 7, away from the rounding of f32.
SettlementRequests ==
    { [current_tier |-> ct, requested_tier |-> rt,
       current_nonrollback |-> cn, requested_nonrollback |-> rn,
       microspaces |-> ms, jurisdictions |-> js, roles |-> ro,
       evidence |-> NonRollbackEvidence(h, 7, st),
       proofs |-> pr, reversal_policy |-> rp] :
        ct \in {"SimulationOnly", "HostLocal"},
        rt \in {"HostLocal", "GlobalNet"},
        cn \in NonRollbackStatuses, rn \in NonRollbackStatuses,
        ms \in {<<>>, <<"aquifer-cell">>}, js \in {<<>>, <<"PHX">>},
        ro \in {required_roles, required_roles \ {"EcoNodeOperator"}},
        h \in {89, 90},
        st \in {IncidentStats(0, 0), IncidentStats(1, 200),
                IncidentStats(1, 100)},
        pr \in { <<ProofHandle("CeimMassBalance", 1),
                   ProofHandle("CpvmViability", 2)>>,
                 <<ProofHandle("CeimMassBalance", 1)>>,
                 <<ProofHandle("CpvmViability", 1),
                   ProofHandle("CeimMassBalance", 2)>> },
        rp \in {<<>>, <<"emergency-detox">>} }

\* incidents_within_ceiling with no session observed counted as within.
incidents_within_ceiling_unobserved(self) ==
    self.incident_stats.total_incidents * 1000
        <= self.max_incident_rate_per_1k_sessions
             * self.incident_stats.sessions_observed

\* NonRollbackEvidence::incidents_within_ceiling: total / sessions * 1000.0
\* <= ceiling, compared without the quotient.
incidents_within_ceiling(self) ==
    IF self.incident_stats.sessions_observed = 0 THEN FALSE
    ELSE self.incident_stats.total_incidents * 1000
             <= self.max_incident_rate_per_1k_sessions
                  * self.incident_stats.sessions_observed

\* SettlementDecision::denied
SettlementDecision_denied(reason) ==
    [approved |-> FALSE, reason |-> reason, new_tier |-> "SimulationOnly",
     new_nonrollback |-> "Experimental"]

\* SettlementDecision::approved
SettlementDecision_approved(tier, nonrollback) ==
    [approved |-> TRUE, reason |-> None, new_tier |-> tier,
     new_nonrollback |-> nonrollback]

\* can_settle_to_nonrollback; the DeedEvent it builds on approval is dropped
\* at the end of the function.
can_settle_to_nonrollback(req) ==
    IF <<req.current_nonrollback, req.requested_nonrollback>>
           \in { <<"Settled", "Experimental">>, <<"Settled", "Provisional">>,
                 <<"Provisional", "Experimental">> }
    THEN SettlementDecision_denied("regress")
    ELSE IF req.current_tier = "SimulationOnly"
    THEN SettlementDecision_denied("simulation-only")
    ELSE IF ~(required_roles \subseteq req.roles)
    THEN SettlementDecision_denied("roles")
    ELSE LET ceim_ok == \E i \in 1..Len(req.proofs) :
                            /\ req.proofs[i].class = "CeimMassBalance"
                            /\ req.proofs[i].id = req.evidence.ceim_proof.id
             cpvm_ok == \E i \in 1..Len(req.proofs) :
                            /\ req.proofs[i].class = "CpvmViability"
                            /\ req.proofs[i].id = req.evidence.cpvm_proof.id
         IN  IF ~ceim_ok \/ ~cpvm_ok
             THEN SettlementDecision_denied("proofs")
             ELSE IF req.evidence.observation_horizon_days < 90
             THEN SettlementDecision_denied("horizon")
             ELSE IF ~incidents_within_ceiling(req.evidence)
             THEN SettlementDecision_denied("incidents")
             ELSE IF Len(req.reversal_policy) = 0
             THEN SettlementDecision_denied("reversal-policy")
             ELSE IF Len(req.microspaces) = 0 \/ Len(req.jurisdictions) = 0
             THEN SettlementDecision_denied("enumeration")
             ELSE SettlementDecision_approved(req.requested_tier,
                                              req.requested_nonrollback)

\* f32::EPSILON, the unit RoH values are counted in
F32_EPSILON == 1

\* The contexts a caller may hand to evaluate_reversal.
ReversalContexts ==
    { [current_capability |-> "current",
       proposed_capability |-> [is_nonexpansive_vs_current |-> b[1]],
       roh_before |-> 0, roh_after |-> ra,
       polytope_before |-> [is_legal_corridor |-> b[2], unfairdrain |-> FALSE],
       polytope_after |-> [is_legal_corridor |-> b[3], unfairdrain |-> b[4]],
       envelope_before |-> "before",
       envelope_after |-> [is_nonexpansive_vs_before |-> b[5]],
       evidence |-> [is_complete_and_valid |-> b[6]],
       evidence_flags |-> [corridor_safe |-> b[7], window_valid |-> b[8],
                           no_safer_alternative |-> b[9],
                           overload_present |-> b[10]],
       sovereign |-> [is_fully_attested_for_reversal |-> b[11]],
       reversal_kind |-> k] :
        b \in [1..11 -> BOOLEAN], ra \in {0, F32_EPSILON, 2 * F32_EPSILON},
        k \in {"CapabilityTightening", "EnvelopeTightening",
               "EmergencySafeHalt"} }

\* evaluate_reversal with the safe halt granted whatever the alternatives.
evaluate_reversal_halt_unconditional(ctx) ==
    IF ~ctx.polytope_before.is_legal_corridor
           \/ ~ctx.polytope_after.is_legal_corridor
    THEN "DeniedRoHViolation"
    ELSE IF ~ctx.envelope_after.is_nonexpansive_vs_before
    THEN "DeniedEnvelopeViolation"
    ELSE IF ctx.polytope_after.unfairdrain THEN "DeniedUnfairDrain"
    ELSE IF ctx.roh_after > ctx.roh_before + F32_EPSILON
    THEN "DeniedMonotonicityViolation"
    ELSE IF ~ctx.evidence.is_complete_and_valid THEN "DeniedEvidenceFailure"
    ELSE IF ~ctx.evidence_flags.corridor_safe
               \/ ~ctx.evidence_flags.window_valid
    THEN "DeniedEvidenceFailure"
    ELSE IF ~ctx.sovereign.is_fully_attested_for_reversal
    THEN "DeniedSovereigntyFailure"
    ELSE IF ~ctx.proposed_capability.is_nonexpansive_vs_current
    THEN "DeniedUnauthorizedUpgrade"
    ELSE IF ctx.evidence_flags.overload_present
               /\ ~ctx.evidence_flags.no_safer_alternative
    THEN "DeniedPredatoryReversal"
    ELSE IF ctx.reversal_kind = "EmergencySafeHalt"
    THEN "RequireRepairSafeHalt"
    ELSE "AdmissibleTightening"

\* evaluate_reversal with the sovereign multisig not looked at.
evaluate_reversal_without_sovereign(ctx) ==
    IF ~ctx.polytope_before.is_legal_corridor
           \/ ~ctx.polytope_after.is_legal_corridor
    THEN "DeniedRoHViolation"
    ELSE IF ~ctx.envelope_after.is_nonexpansive_vs_before
    THEN "DeniedEnvelopeViolation"
    ELSE IF ctx.polytope_after.unfairdrain THEN "DeniedUnfairDrain"
    ELSE IF ctx.roh_after > ctx.roh_before + F32_EPSILON
    THEN "DeniedMonotonicityViolation"
    ELSE IF ~ctx.evidence.is_complete_and_valid THEN "DeniedEvidenceFailure"
    ELSE IF ~ctx.evidence_flags.corridor_safe
               \/ ~ctx.evidence_flags.window_valid
    THEN "DeniedEvidenceFailure"
    ELSE IF ~ctx.proposed_capability.is_nonexpansive_vs_current
    THEN "DeniedUnauthorizedUpgrade"
    ELSE IF ctx.evidence_flags.overload_present
               /\ ~ctx.evidence_flags.no_safer_alternative
    THEN "DeniedPredatoryReversal"
    ELSE IF ctx.reversal_kind = "EmergencySafeHalt"
    THEN IF ~ctx.evidence_flags.no_safer_alternative
         THEN "DeniedPredatoryReversal"
         ELSE "RequireRepairSafeHalt"
    ELSE "AdmissibleTightening"

\* evaluate_reversal
evaluate_reversal(ctx) ==
    IF ~ctx.polytope_before.is_legal_corridor
           \/ ~ctx.polytope_after.is_legal_corridor
    THEN "DeniedRoHViolation"
    ELSE IF ~ctx.envelope_after.is_nonexpansive_vs_before
    THEN "DeniedEnvelopeViolation"
    ELSE IF ctx.polytope_after.unfairdrain THEN "DeniedUnfairDrain"
    ELSE IF ctx.roh_after > ctx.roh_before + F32_EPSILON
    THEN "DeniedMonotonicityViolation"
    ELSE IF ~ctx.evidence.is_complete_and_valid THEN "DeniedEvidenceFailure"
    ELSE IF ~ctx.evidence_flags.corridor_safe
               \/ ~ctx.evidence_flags.window_valid
    THEN "DeniedEvidenceFailure"
    ELSE IF ~ctx.sovereign.is_fully_attested_for_reversal
    THEN "DeniedSovereigntyFailure"
    ELSE IF ~ctx.proposed_capability.is_nonexpansive_vs_current
    THEN "DeniedUnauthorizedUpgrade"
    ELSE IF ctx.evidence_flags.overload_present
               /\ ~ctx.evidence_flags.no_safer_alternative
    THEN "DeniedPredatoryReversal"
    ELSE IF ctx.reversal_kind = "EmergencySafeHalt"
    THEN IF ~ctx.evidence_flags.no_safer_alternative
         THEN "DeniedPredatoryReversal"
         ELSE "RequireRepairSafeHalt"
    ELSE "AdmissibleTightening"

InitGov ==
    /\ crate = "governance"
    /\ NoLedgers
    /\ cfg = <<>>
    /\ action = <<>>
    /\ snapshot = <<>>
    /\ result = "none"
    /\ ECO_FAIRNESS_SPEC = <<>>
    /\ CURRENT_USAGE = <<>>
    /\ usage_lock = <<>>
    /\ calls = <<>>
    /\ \/ \E req \in SettlementRequests :
             args = [fn |-> "can_settle_to_nonrollback", req |-> req]
       \/ \E ctx \in ReversalContexts :
             args = [fn |-> "evaluate_reversal", ctx |-> ctx]
    /\ returned = NotReturned
    /\ NoMainLoop

\* can_settle_to_nonrollback(&req)
governance_can_settle_to_nonrollback ==
    /\ crate = "governance"
    /\ args.fn = "can_settle_to_nonrollback"
    /\ returned.tag = "none"
    /\ returned' = [tag |-> "SettlementDecision", item |-> "",
                    value |-> can_settle_to_nonrollback(args.req)]
    /\ UNCHANGED args
    /\ UNCHANGED main_vars
    /\ UNCHANGED ledger_vars
    /\ UNCHANGED eco_vars

\* evaluate_reversal(&ctx)
policyengine_evaluate_reversal ==
    /\ crate = "governance"
    /\ args.fn = "evaluate_reversal"
    /\ returned.tag = "none"
    /\ returned' = [tag |-> "DecisionReason", item |-> "",
                    value |-> evaluate_reversal(args.ctx)]
    /\ UNCHANGED args
    /\ UNCHANGED main_vars
    /\ UNCHANGED ledger_vars
    /\ UNCHANGED eco_vars

NextGov ==
    \/ governance_can_settle_to_nonrollback
    \/ policyengine_evaluate_reversal

SpecGov == InitGov /\ [][NextGov]_vars

---------------------------------------------------------------------------
\* The node's main loop (src/main.rs): run_main_loop, polled by main's
\* select! together with ctrl_c.  The Ledger, the Regulator and the
\* SponsorEngine of main.rs are not among the sources: each of their calls
\* returns Ok or Err, the regulator any EthicsDecision, the sponsor any plan.

\* Bound on the calls of a mutating ledger method.
MaxWrites == 2

\* enum EthicsDecision as matched by apply_ethics_decision
EthicsDecisions == {"Allow", "Warn", "ForceRepair", "HaltAndReview"}

\* Where run_main_loop is no longer polled: returned Ok, returned Err, or
\* dropped by select! when ctrl_c completed.
Stopped == {"Ok", "Err", "dropped"}

\* The state when main has built the two futures of select!.
InitMain ==
    /\ crate = "main"
    /\ NoLedgers
    /\ cfg = <<>>
    /\ action = <<>>
    /\ snapshot = <<>>
    /\ result = "none"
    /\ ECO_FAIRNESS_SPEC = <<>>
    /\ CURRENT_USAGE = <<>>
    /\ usage_lock = <<>>
    /\ calls = <<>>
    /\ args = <<>>
    /\ returned = "none"
    /\ loop_pc = "top"
    /\ shutdown = FALSE
    /\ decision = None
    /\ ledger_writes = 0

\* The top of the loop with the test of the flag left out.
run_main_loop_top_unobserved ==
    /\ crate = "main"
    /\ loop_pc = "top"
    /\ loop_pc' = "compute_metrics"
    /\ UNCHANGED <<shutdown, decision, ledger_writes>>
    /\ UNCHANGED ledger_vars
    /\ UNCHANGED eco_vars
    /\ UNCHANGED fn_vars

\* loop { if *shutdown.borrow() { break; } let tick_start = now_utc(); and,
\* after the break, Ok(())
run_main_loop_top ==
    /\ crate = "main"
    /\ loop_pc = "top"
    /\ loop_pc' = IF shutdown THEN "Ok" ELSE "compute_metrics"
    /\ UNCHANGED <<shutdown, decision, ledger_writes>>
    /\ UNCHANGED ledger_vars
    /\ UNCHANGED eco_vars
    /\ UNCHANGED fn_vars

\* let metrics = { state.ledger.read().await; ledger.compute_metrics()? };
run_main_loop_compute_metrics(res) ==
    /\ crate = "main"
    /\ loop_pc = "compute_metrics"
    /\ loop_pc' = IF res = "Ok" THEN "evaluate" ELSE "Err"
    /\ UNCHANGED <<shutdown, decision, ledger_writes>>
    /\ UNCHANGED ledger_vars
    /\ UNCHANGED eco_vars
    /\ UNCHANGED fn_vars

\* let decision = state.regulator.evaluate(&ethics_summary)?;
run_main_loop_evaluate(res) ==
    /\ crate = "main"
    /\ loop_pc = "evaluate"
    /\ res \in {"ForceRepair", "HaltAndReview"} => ledger_writes < MaxWrites
    /\ IF res = "Err"
       THEN loop_pc' = "Err" /\ UNCHANGED decision
       ELSE loop_pc' = "apply_ethics_decision" /\ decision' = res
    /\ UNCHANGED <<shutdown, ledger_writes>>
    /\ UNCHANGED ledger_vars
    /\ UNCHANGED eco_vars
    /\ UNCHANGED fn_vars

\* apply_ethics_decision(&state, &metrics, &decision).await?
apply_ethics_decision(res) ==
    /\ crate = "main"
    /\ loop_pc = "apply_ethics_decision"
    /\ IF decision \in {"Allow", "Warn"}
       THEN /\ res = "Ok"
            /\ loop_pc' = "apply_sponsor_rewards"
            /\ UNCHANGED ledger_writes
       ELSE /\ ledger_writes' = ledger_writes + 1
            /\ loop_pc' = IF res = "Ok" THEN "apply_sponsor_rewards"
                          ELSE "Err"
    /\ UNCHANGED <<shutdown, decision>>
    /\ UNCHANGED ledger_vars
    /\ UNCHANGED eco_vars
    /\ UNCHANGED fn_vars

\* apply_sponsor_rewards(&state, &metrics).await?; plan is what plan_rewards
\* returned: "Err", "empty" or "rewards".
apply_sponsor_rewards(plan, res) ==
    /\ crate = "main"
    /\ loop_pc = "apply_sponsor_rewards"
    /\ plan = "rewards" => ledger_writes < MaxWrites
    /\ CASE plan = "Err" ->
              /\ res = "Err"
              /\ loop_pc' = "Err"
              /\ UNCHANGED ledger_writes
         [] plan = "empty" ->
              /\ res = "Ok"
              /\ loop_pc' = "sleep"
              /\ UNCHANGED ledger_writes
         [] plan = "rewards" ->
              /\ ledger_writes' = ledger_writes + 1
              /\ loop_pc' = IF res = "Ok" THEN "sleep" ELSE "Err"
    /\ UNCHANGED <<shutdown, decision>>
    /\ UNCHANGED ledger_vars
    /\ UNCHANGED eco_vars
    /\ UNCHANGED fn_vars

\* if elapsed < tick_interval { sleep(tick_interval - elapsed).await; } and
\* the end of the loop body
run_main_loop_sleep ==
    /\ crate = "main"
    /\ loop_pc = "sleep"
    /\ loop_pc' = "top"
    /\ decision' = None
    /\ UNCHANGED <<shutdown, ledger_writes>>
    /\ UNCHANGED ledger_vars
    /\ UNCHANGED eco_vars
    /\ UNCHANGED fn_vars

\* The sender of the watch channel made by shutdown_notify() sends true.
shutdown_notify_send ==
    /\ crate = "main"
    /\ ~shutdown
    /\ shutdown' = TRUE
    /\ UNCHANGED <<loop_pc, decision, ledger_writes>>
    /\ UNCHANGED ledger_vars
    /\ UNCHANGED eco_vars
    /\ UNCHANGED fn_vars

\* select! { _ = signal::ctrl_c() => .. }: the loop's future is dropped where
\* it awaits (a lock of the ledger, or the sleep).
main_ctrl_c ==
    /\ crate = "main"
    /\ loop_pc \in {"compute_metrics", "apply_ethics_decision",
                    "apply_sponsor_rewards", "sleep"}
    /\ loop_pc' = "dropped"
    /\ UNCHANGED <<shutdown, decision, ledger_writes>>
    /\ UNCHANGED ledger_vars
    /\ UNCHANGED eco_vars
    /\ UNCHANGED fn_vars

\* A step of run_main_loop.
run_main_loop ==
    \/ run_main_loop_top
    \/ \E res \in {"Ok", "Err"} : run_main_loop_compute_metrics(res)
    \/ \E res \in EthicsDecisions \cup {"Err"} : run_main_loop_evaluate(res)
    \/ \E res \in {"Ok", "Err"} : apply_ethics_decision(res)
    \/ \E plan \in {"Err", "empty", "rewards"}, res \in {"Ok", "Err"} :
           apply_sponsor_rewards(plan, res)
    \/ run_main_loop_sleep

NextMain ==
    \/ run_main_loop
    \/ shutdown_notify_send
    \/ main_ctrl_c

SpecMain == InitMain /\ [][NextMain]_vars

\* The runtime goes on polling the loop, and each step of a tick returns.
SpecMainFair == SpecMain /\ WF_vars(run_main_loop)

---------------------------------------------------------------------------
\* Notions the claims are stated in

\* Every adjacent pair of records is linked.
Linked(evs) ==
    \A i \in 2..Len(evs) : evs[i].prev_hash = evs[i - 1].self_hash

\* The records a reader of the file finds: the lines that parse, in order.
PersistedRecords(f) ==
    LET good == SelectSeq(lines(f), LAMBDA l : from_str_ok(l))
    IN  [i \in 1..Len(good) |-> good[i][1].ev]

\* Every write to the file was one of a successful append: whole records,
\* each followed by its line end.
OnlySuccessfulAppends(f) ==
    \A i \in 1..Len(f) :
        /\ f[i].t # "part"
        /\ f[i].t = "rec" => (i < Len(f) /\ f[i + 1].t = "nl")

\* H(canonical serialization of the record without its self_hash field)
HashWithoutSelf(e) == Sha256(to_string_skip_self_hash(e))

\* H(serialization of the record with its self_hash field emptied)
HashWithSelfEmptied(e) == Sha256(to_string([e EXCEPT !.self_hash = EmptyString]))

\* The self_hash of the last persisted record, GENESIS_HASH when none.
LastPersistedHash(f) ==
    LET recs == PersistedRecords(f)
    IN  IF Len(recs) = 0 THEN GENESIS_HASH ELSE recs[Len(recs)].self_hash

\* The last persisted record's self_hash is not the hash of its content.
LastRecordBroken(f) ==
    LET recs == PersistedRecords(f)
    IN  /\ Len(recs) > 0
        /\ recs[Len(recs)].self_hash # HashWithoutSelf(recs[Len(recs)])

IsPrefix(s, t) ==
    /\ Len(s) <= Len(t)
    /\ \A i \in 1..Len(s) : s[i] = t[i]

---------------------------------------------------------------------------
\* Notions the guard's claims are stated in

\* The checks of the admission decision, each as the condition under which
\* it fails for the guard's configuration, action and snapshot.
NoEnvelope == action.route \notin DOMAIN cfg.tsafe_envelopes
Envelope == cfg.tsafe_envelopes[action.route]
PowerAbove == projected_power(action, snapshot) > Envelope.max_power
EnergyAbove ==
    projected_energy(action, snapshot) > Envelope.max_cumulative_energy
ComputeAbove ==
    projected_compute_gt(action, snapshot, Envelope.max_compute_fraction)
ClassMissing == action.equity_class = None
ClassUnknown == action.equity_class \notin DOMAIN cfg.grace_equity.bounds
ShareAbove ==
    projected_share_gt(action, snapshot,
                       cfg.grace_equity.bounds[action.equity_class].max_share)
RiskIncreases == action.rohafterestimate > action.rohbefore
RiskAboveCeiling == action.rohafterestimate > cfg.roh_model.ceiling

\* The route envelope, resource ceiling and equity checks all pass.
ResourceAndEquityPass ==
    /\ ~NoEnvelope /\ ~PowerAbove /\ ~EnergyAbove /\ ~ComputeAbove
    /\ ~ClassMissing /\ ~ClassUnknown /\ ~ShareAbove

\* The guard has been called.
Checked == crate = "ecofairness-guard" /\ result # "none"

---------------------------------------------------------------------------
\* Notions the kernel's claims are stated in

\* Thread t is inside a call or has returned from one.
Called(t) == crate = "ecofairness_guardian" /\ calls[t] # NoCall

\* The call of thread t has passed checks 1 to 5: it is admitted and has its
\* demand still to add.
PassedChecks(t) == crate = "ecofairness_guardian" /\ calls[t].pc = "commit"

\* The step returns a denial to thread t.
ReturnsDenial(t) ==
    /\ crate = "ecofairness_guardian"
    /\ calls'[t] # calls[t]
    /\ calls'[t].pc = "idle"
    /\ calls'[t].res # "Ok"

\* Every other thread is in an admitted call for a subject other than
\* that of thread t.
OthersOnOtherKeys(t) ==
    \A o \in Threads \ {t} :
        PassedChecks(o) /\ calls[o].subject # calls[t].subject

\* Notions the claims on the construction of the guards are stated in

\* A constructor was called and has returned.
Constructed(fn) ==
    crate = "config" /\ args.fn = fn /\ returned.tag # "none"

\* The sum of the min_share of the classes of a list.
RECURSIVE SumMinShare(_)
SumMinShare(cs) ==
    IF Len(cs) = 0 THEN 0 ELSE cs[1].min_share + SumMinShare(Tail(cs))

\* A fraction lies in [0, 1].
InUnit(x) == x >= 0 /\ x <= One

\* The class at position i breaks an invariant of its own.
ClassBroken(cs, i) ==
    \/ ~InUnit(cs[i].min_share)
    \/ ~InUnit(cs[i].max_share)
    \/ cs[i].min_share > cs[i].max_share

\* The name of the class at position i is that of an earlier class.
ClassRepeated(cs, i) == \E j \in 1..(i - 1) : cs[j].name = cs[i].name

\* The minimum shares add up to more than 1.0 + 1e-6.
SumAbove(cs) == SumMinShare(cs) * 1000000 > One * 1000000 + One

\* The route envelope at position i has a fraction outside [0, 1].
RouteBroken(rs, i) ==
    ~InUnit(rs[i].max_power_fraction) \/ ~InUnit(rs[i].max_compute_fraction)

\* The conditions under which a kernel spec may become a kernel.
ValidKernelSpec(spec) ==
    /\ Len(spec.classes) > 0
    /\ \A i \in 1..Len(spec.classes) :
           ~ClassBroken(spec.classes, i) /\ ~ClassRepeated(spec.classes, i)
    /\ ~SumAbove(spec.classes)
    /\ \A i \in 1..Len(spec.node_routes) : ~RouteBroken(spec.node_routes, i)

\* The items of a kernel spec that break a condition.
OffendingItems(spec) ==
    (IF Len(spec.classes) = 0 THEN {"classes"} ELSE {})
    \cup { spec.classes[i].name : i \in
             { k \in 1..Len(spec.classes) :
                 ClassBroken(spec.classes, k) \/ ClassRepeated(spec.classes, k) } }
    \cup (IF SumAbove(spec.classes) THEN {"sum(min_share)"} ELSE {})
    \cup { spec.node_routes[i].route : i \in
             { k \in 1..Len(spec.node_routes) : RouteBroken(spec.node_routes, k) } }


\* The sum of the min_share of a map class -> bounds.
RECURSIVE SumMinOfBounds(_)
SumMinOfBounds(bounds) ==
    IF DOMAIN bounds = {} THEN 0
    ELSE LET k == CHOOSE x \in DOMAIN bounds : TRUE
         IN  bounds[k].min_share
             + SumMinOfBounds([x \in DOMAIN bounds \ {k} |-> bounds[x]])

\* The data-model invariants on a map class -> bounds.
BoundsInvariant(bounds) ==
    /\ \A k \in DOMAIN bounds :
           /\ InUnit(bounds[k].min_share)
           /\ InUnit(bounds[k].max_share)
           /\ bounds[k].min_share <= bounds[k].max_share
    /\ SumMinOfBounds(bounds) * 1000000 <= One * 1000000 + One


\* The line holds text that is not one whole record.
Unparsable(line) == Len(line) > 0 /\ ~(Len(line) = 1 /\ line[1].t = "rec")

\* The self_hash of the last record line of a file, or the genesis hash.
RECURSIVE LastRecordHash(_)
LastRecordHash(ls) ==
    IF Len(ls) = 0 THEN GENESIS_HASH
    ELSE IF Len(ls[Len(ls)]) = 0 THEN LastRecordHash(SubSeq(ls, 1, Len(ls) - 1))
    ELSE ls[Len(ls)][1].ev.self_hash

\* A governance function has been called and has returned.
Decided(fn) ==
    crate = "governance" /\ args.fn = fn /\ returned.tag # "none"

\* The order of the non-rollback statuses.
StatusRank(status) ==
    CASE status = "Experimental" -> 0
      [] status = "Provisional" -> 1
      [] status = "Settled" -> 2

\* A proof handle is among the proofs of a request.
AmongProofs(req, handle) ==
    \E i \in 1..Len(req.proofs) : req.proofs[i] = handle

\* What a settlement request must satisfy to be approved.
SettlementConditions(req) ==
    /\ StatusRank(req.requested_nonrollback)
           >= StatusRank(req.current_nonrollback)
    /\ req.current_tier # "SimulationOnly"
    /\ \A role \in {"HostConsent", "EthicsBoard", "RegulatorQuorum",
                    "EcoNodeOperator"} : role \in req.roles
    /\ AmongProofs(req, ProofHandle("CeimMassBalance",
                                    req.evidence.ceim_proof.id))
    /\ AmongProofs(req, ProofHandle("CpvmViability",
                                    req.evidence.cpvm_proof.id))
    /\ req.evidence.observation_horizon_days >= 90
    /\ req.evidence.incident_stats.sessions_observed >= 1
    /\ req.evidence.incident_stats.total_incidents * 1000
           <= req.evidence.max_incident_rate_per_1k_sessions
                * req.evidence.incident_stats.sessions_observed
    /\ req.reversal_policy # <<>>
    /\ req.microspaces # <<>>
    /\ req.jurisdictions # <<>>


\* The denial of the first of the corridor, envelope, drain, monotonicity,
\* evidence, sovereignty and capability conditions a context fails, None
\* when it meets them all.
FirstFailedCondition(ctx) ==
    CASE ~(ctx.polytope_before.is_legal_corridor
              /\ ctx.polytope_after.is_legal_corridor)
             -> "DeniedRoHViolation"
      [] OTHER -> CASE ~ctx.envelope_after.is_nonexpansive_vs_before
             -> "DeniedEnvelopeViolation"
      [] OTHER -> CASE ctx.polytope_after.unfairdrain
             -> "DeniedUnfairDrain"
      [] OTHER -> CASE ~(ctx.roh_after <= ctx.roh_before + F32_EPSILON)
             -> "DeniedMonotonicityViolation"
      [] OTHER -> CASE ~(ctx.evidence.is_complete_and_valid
                            /\ ctx.evidence_flags.corridor_safe
                            /\ ctx.evidence_flags.window_valid)
             -> "DeniedEvidenceFailure"
      [] OTHER -> CASE ~ctx.sovereign.is_fully_attested_for_reversal
             -> "DeniedSovereigntyFailure"
      [] OTHER -> CASE ~ctx.proposed_capability.is_nonexpansive_vs_current
             -> "DeniedUnauthorizedUpgrade"
      [] OTHER -> None

NonDenials == {"AdmissibleTightening", "RequireRepairSafeHalt"}


---------------------------------------------------------------------------
\* Claims

\* C1: after successful appends only, every stored record at position i > 0
\* has prev_hash equal to the self_hash of the record at position i - 1, in
\* the ledger file (reopened or not) and in SovereigntyCore's deed_log.
C1_RecordsLinked ==
    /\ OnlySuccessfulAppends(file) => Linked(PersistedRecords(file))
    /\ Linked(deed_log)

\* C2: the first record accepted by any ledger (MoralLedger, the in-memory
\* Ledger, SovereigntyCore) has prev_hash = GENESIS_HASH, the all-zero
\* sentinel.
C2_FirstPrevHashIsGenesis ==
    /\ Len(PersistedRecords(file)) > 0
          => PersistedRecords(file)[1].prev_hash = GENESIS_HASH
    /\ Len(events) > 0 => events[1].prev_hash = GENESIS_HASH
    /\ Len(deed_log) > 0 => deed_log[1].prev_hash = GENESIS_HASH

\* C3: every record built by DeedEvent::new with hash_deed, or by the
\* sovereignty core's DeedEvent::new and link_to_prev, has self_hash = H of
\* the record with self_hash excluded (read generously: left out of the
\* serialization, or emptied in it), so that the hash can be recomputed from
\* the stored record.
C3_SelfHashOfRecordWithoutSelf ==
    \A e \in {chain[i] : i \in 1..Len(chain)}
                \cup {deed_log[i] : i \in 1..Len(deed_log)} :
        \/ e.self_hash = HashWithoutSelf(e)
        \/ e.self_hash = HashWithSelfEmptied(e)

\* C4: once the payload of a record of an append-produced sequence has been
\* corrupted, validate_chain returns false on the sequence; stated here only
\* for a corrupted record that has a successor in the sequence.
C4_CorruptionDetected ==
    (/\ crate = "fear"
     /\ corrupted # 0
     /\ corrupted < Len(chain)
     /\ ret.op = "validate_chain")
        => ret.res = "false"

\* C5: validate_chain returns true exactly when every adjacent pair has
\* records[i].prev_hash = records[i-1].self_hash, hence true on every
\* sequence successive appends produce, the empty and the single-record
\* one included.
C5_ValidateChainExact ==
    (crate = "fear" /\ ret.op = "validate_chain")
        => /\ (ret.res = "true") <=> Linked(chain)
           /\ AppendProduced(chain) => ret.res = "true"
           /\ Len(chain) <= 1 => ret.res = "true"

\* C5 witness: validate_chain has answered false on a sequence whose first
\* pair is linked and whose last pair is not.
C5_Witness ==
    /\ crate = "fear"
    /\ ret = Ret("validate_chain", 0, "false")
    /\ Len(chain) = 3
    /\ chain[2].prev_hash = chain[1].self_hash
    /\ chain[3].prev_hash # chain[2].self_hash

\* C6: no two records of the ledger file carry the same prev_hash; stated
\* here only for a file that successful appends alone have written.
C6_NoSharedPrevHash ==
    LET recs == PersistedRecords(file)
    IN  OnlySuccessfulAppends(file)
            => \A i, j \in 1..Len(recs) :
                   i # j => recs[i].prev_hash # recs[j].prev_hash

\* C7: open_or_create does not return a ledger when the last persisted
\* record's self_hash does not match its recomputation; stated here only
\* for a file that successful appends alone have written.
C7_BrokenChainNotReopened ==
    (/\ crate = "moral"
     /\ ret.op = "open_or_create"
     /\ OnlySuccessfulAppends(file)
     /\ LastRecordBroken(file))
        => ret.res # "Ok"

\* C8: an append that returns an error leaves last_hash as it was and adds
\* no record to the ledger.
C8_FailedAppendAddsNothing ==
    [][(crate = "moral" /\ ret'.op = "append" /\ ret'.res # "Ok")
          => /\ handles' = handles
             /\ PersistedRecords(file') = PersistedRecords(file)]_vars

\* C9: open_or_create leaves the file as it is and, when it succeeds, yields
\* the self_hash of the last persisted record (GENESIS_HASH when there is
\* none); two replays in a row yield the same last_hash.
C9_ReplayIdempotent ==
    [][(crate = "moral" /\ ret'.op = "open_or_create")
          => /\ file' = file
             /\ ret'.res = "Ok"
                   => handles'[ret'.h].last_hash = LastPersistedHash(file)
             /\ (ret.op = "open_or_create" /\ ret.res = "Ok"
                     /\ ret'.res = "Ok")
                   => handles'[ret'.h].last_hash = handles[ret.h].last_hash
       ]_vars

\* C9 witness: the file holds two records and both handles were opened on
\* it, the second right after the first.
C9_Witness ==
    /\ crate = "moral"
    /\ Len(PersistedRecords(file)) >= 2
    /\ ret = Ret("open_or_create", 2, "Ok")
    /\ handles[1].open
    /\ handles[1].last_hash = handles[2].last_hash
    /\ handles[2].last_hash = PersistedRecords(file)[2].self_hash

\* C10: every step leaves what the ledgers held before in place: the
\* earlier content of the file, of Ledger.events and of deed_log is a
\* prefix of the later one.
C10_AppendOnly ==
    [][/\ IsPrefix(file, file')
       /\ IsPrefix(events, events')
       /\ IsPrefix(deed_log, deed_log')]_vars

\* C10 witness: the in-memory ledger holds two records and has just been
\* read with events_for_actor.
C10_Witness ==
    /\ crate = "mem"
    /\ Len(events) >= 2
    /\ ret.op = "events_for_actor"

\* C11: after successful appends only, the last hash of a ledger that has
\* just appended is the self_hash of the most recently appended record:
\* Ledger.last_hash of the last of Ledger.events, SovereigntyCore.current_hash
\* of the last of deed_log, and the last_hash of the MoralLedger whose append
\* has just returned Ok of the last record of the file.
C11_LastHashIsLatestSelfHash ==
    /\ events # <<>> => last_hash = events[Len(events)].self_hash
    /\ deed_log # <<>> => current_hash = deed_log[Len(deed_log)].self_hash
    /\ \A h \in Handles :
          (OnlySuccessfulAppends(file) /\ ret = Ret("append", h, "Ok"))
              => handles[h].last_hash = LastPersistedHash(file)

\* C11 witness: handle 2 has just appended the second record of the file,
\* handle 1 wrote the first.
C11_Witness ==
    /\ crate = "moral"
    /\ OnlySuccessfulAppends(file)
    /\ Len(PersistedRecords(file)) = 2
    /\ ret = Ret("append", 2, "Ok")
    /\ handles[1].last_hash = PersistedRecords(file)[1].self_hash

\* C12: the result of EcoFairnessGuard::check is the deny reason of the
\* first failing check in the order route envelope, power, energy, compute,
\* equity class present, equity class known, max_share, risk monotonicity,
\* risk ceiling, and Ok when none fails.
C12_FirstFailingCheckInOrder ==
    Checked =>
        result = IF NoEnvelope THEN "ECO_NO_ROUTE_ENV"
                 ELSE IF PowerAbove THEN "ECO_POWER_EXCEEDED"
                 ELSE IF EnergyAbove THEN "ECO_ENERGY_EXCEEDED"
                 ELSE IF ComputeAbove THEN "ECO_COMPUTE_EXCEEDED"
                 ELSE IF ClassMissing THEN "ECO_NO_EQUITY_CLASS"
                 ELSE IF ClassUnknown THEN "ECO_UNKNOWN_EQUITY_CLASS"
                 ELSE IF ShareAbove THEN "ECO_EQUITY_MAX_EXCEEDED"
                 ELSE IF RiskIncreases THEN "ROH_MONOTONE"
                 ELSE IF RiskAboveCeiling THEN "ROH_CEILING"
                 ELSE "Ok"

\* C13: an action on a route without a configured envelope is denied, by
\* EcoFairnessGuard::check with ECO_NO_ROUTE_ENV, and by check_route too:
\* such a call never gets past the route check, so it is not admitted and
\* touches no usage.
C13_NoEnvelopeDenied ==
    /\ (Checked /\ NoEnvelope) => result = "ECO_NO_ROUTE_ENV"
    /\ \A t \in Threads :
          (Called(t) /\ calls[t].route
                           \notin DOMAIN ECO_FAIRNESS_SPEC.per_route_budgets)
              => (calls[t].pc = "idle" /\ calls[t].res \notin {"none", "Ok"})

\* C14: an admitted action has rohafterestimate <= rohbefore and
\* rohafterestimate <= ceiling; when the earlier checks pass, an increase of
\* risk is denied with ROH_MONOTONE, and a value above the ceiling that is
\* no increase with ROH_CEILING; equal values are admitted.
C14_RiskBoundsAndReasons ==
    Checked =>
        /\ result = "Ok" => (~RiskIncreases /\ ~RiskAboveCeiling)
        /\ (ResourceAndEquityPass /\ RiskIncreases) => result = "ROH_MONOTONE"
        /\ (ResourceAndEquityPass /\ ~RiskIncreases /\ RiskAboveCeiling)
               => result = "ROH_CEILING"
        /\ (ResourceAndEquityPass /\ ~RiskIncreases /\ ~RiskAboveCeiling)
               => result = "Ok"

\* C15: an action with rohbefore 0.2 and rohafterestimate 0.25 is denied
\* with ROH_MONOTONE whatever the envelopes, the snapshot and the class;
\* stated for the calls that get as far as the risk checks, that is, whose
\* route envelope, resource ceiling and equity checks pass.
C15_RiskIncreaseDeniedAsMonotone ==
    (Checked /\ action.rohbefore = 20 /\ action.rohafterestimate = 25
             /\ ResourceAndEquityPass)
        => result = "ROH_MONOTONE"

\* C16: check admits only if projected power, energy and compute are each
\* <= the route's maximum; with an envelope configured, the first dimension
\* exceeded in the order power, energy, compute is the deny reason; route XR
\* with max_power 100 and a cost of 150 on a snapshot without usage gives
\* ECO_POWER_EXCEEDED; the call leaves the snapshot as it is.
C16_ResourceCeilings ==
    /\ [](Checked =>
            /\ result = "Ok" =>
                  (~NoEnvelope /\ ~PowerAbove /\ ~EnergyAbove /\ ~ComputeAbove)
            /\ (~NoEnvelope /\ PowerAbove) => result = "ECO_POWER_EXCEEDED"
            /\ (~NoEnvelope /\ ~PowerAbove /\ EnergyAbove)
                  => result = "ECO_ENERGY_EXCEEDED"
            /\ (~NoEnvelope /\ ~PowerAbove /\ ~EnergyAbove /\ ComputeAbove)
                  => result = "ECO_COMPUTE_EXCEEDED")
    /\ [][snapshot' = snapshot]_vars

\* C16 witness: route XR with max_power 100, a cost of 150, a snapshot
\* without usage, denied with ECO_POWER_EXCEEDED.
C16_Witness ==
    /\ Checked
    /\ action.route = "XR" /\ action.lifeforcecost = 15000
    /\ cfg.tsafe_envelopes["XR"].max_power = 10000
    /\ snapshot.current_power_draw = 0
    /\ snapshot.current_cumulative_energy = 0
    /\ snapshot.current_compute_fraction = 0
    /\ snapshot.class_shares = <<>>
    /\ result = "ECO_POWER_EXCEEDED"

\* C17: a call of check_route on a route with a budget is admitted only if
\* the subject's accumulated usage plus the demand stays within the route's
\* max_power_watts, max_emissions_gco2eq and max_compute_cycles.
C17_AdmittedWithinRouteBudget ==
    \A t \in Threads :
        (PassedChecks(t)
           /\ calls[t].route \in DOMAIN ECO_FAIRNESS_SPEC.per_route_budgets)
        => LET budget == ECO_FAIRNESS_SPEC.per_route_budgets[calls[t].route]
               usage == CURRENT_USAGE[calls[t].subject]
               demand == calls[t].demand
           IN  /\ usage.max_power_watts + demand.max_power_watts
                      <= budget.max_power_watts
               /\ usage.max_emissions_gco2eq + demand.max_emissions_gco2eq
                      <= budget.max_emissions_gco2eq
               /\ usage.max_compute_cycles + demand.max_compute_cycles
                      <= budget.max_compute_cycles

\* C18: a step in which check_route returns a denial leaves CURRENT_USAGE as
\* it was: no counter changed, no entry created.
C18_DenialLeavesUsage ==
    [][\A t \in Threads : ReturnsDenial(t) => CURRENT_USAGE' = CURRENT_USAGE]_vars

\* C19: between the read of a key's usage and the commit of an admission no
\* other admission holds the same key, and admissions for other keys do not
\* hold a call up: a call that asks for its usage entry while the other
\* threads are in admissions for other keys gets it.
C19_AtomicPerKey ==
    /\ [](\A t, o \in Threads :
            (t # o /\ PassedChecks(t) /\ PassedChecks(o))
                => calls[t].subject # calls[o].subject)
    /\ \A t \in Threads :
          (crate = "ecofairness_guardian" /\ calls[t].pc = "entry"
              /\ OthersOnOtherKeys(t))
          ~> (calls[t].pc # "entry")

\* C20: no admitted demand is lost: the demand of every call that passed the
\* checks becomes part of its key's usage total.
C20_NoLostUpdate ==
    \A t \in Threads, k \in Subjects, d \in Demands :
        (PassedChecks(t) /\ calls[t].subject = k /\ calls[t].demand = d)
        ~> (/\ k \in DOMAIN CURRENT_USAGE
            /\ CURRENT_USAGE[k].max_power_watts >= d.max_power_watts
            /\ CURRENT_USAGE[k].max_emissions_gco2eq >= d.max_emissions_gco2eq
            /\ CURRENT_USAGE[k].max_compute_cycles >= d.max_compute_cycles)

C22_FloorIsAdvisory ==
    /\ (Checked /\ ResourceAndEquityPass /\ ~RiskIncreases /\ ~RiskAboveCeiling
          /\ current_share(snapshot, action.equity_class)
               < cfg.grace_equity.bounds[action.equity_class].min_share)
       => result = "Ok"
    /\ \A t \in Threads :
          Called(t) => calls[t].res # "BelowMinimum"

\* C23: the guard admits an action only if the projected share of its class
\* (current share + lifeforcecost / total_power_budget.max(1.0)) is
\* <= max_share; an action that gets as far as this check with a projected
\* share above max_share is denied with ECO_EQUITY_MAX_EXCEEDED.
C23_EquityMaxShare ==
    Checked =>
        /\ result = "Ok" => (~ClassMissing /\ ~ClassUnknown /\ ~ShareAbove)
        /\ (~NoEnvelope /\ ~PowerAbove /\ ~EnergyAbove /\ ~ComputeAbove
              /\ ~ClassMissing /\ ~ClassUnknown /\ ShareAbove)
           => result = "ECO_EQUITY_MAX_EXCEEDED"

\* C23 witness: class host with max_share 0.6 and current share 0.5, an
\* action adding 0.2 (cost 0.2 on a power budget of at most 1.0), denied
\* with ECO_EQUITY_MAX_EXCEEDED.
C23_Witness ==
    /\ Checked
    /\ action.equity_class = "host"
    /\ cfg.grace_equity.bounds["host"].max_share = 60
    /\ current_share(snapshot, "host") = 50
    /\ action.lifeforcecost = 20
    /\ max(snapshot.total_power_budget, One) = One
    /\ result = "ECO_EQUITY_MAX_EXCEEDED"

\* C24: an action without equity_class and an action naming a class without
\* bounds are never admitted; when the route envelope checks pass, the
\* first is denied with ECO_NO_EQUITY_CLASS and the second with
\* ECO_UNKNOWN_EQUITY_CLASS.
C24_EquityClassRequired ==
    Checked =>
        /\ (ClassMissing \/ ClassUnknown) => result # "Ok"
        /\ (~NoEnvelope /\ ~PowerAbove /\ ~EnergyAbove /\ ~ComputeAbove
              /\ ClassMissing)
           => result = "ECO_NO_EQUITY_CLASS"
        /\ (~NoEnvelope /\ ~PowerAbove /\ ~EnergyAbove /\ ~ComputeAbove
              /\ ~ClassMissing /\ ClassUnknown)
           => result = "ECO_UNKNOWN_EQUITY_CLASS"

\* C24 witness: an action of class guest, which has no bounds, passed the
\* route envelope checks with its risk values in order and was denied with
\* ECO_UNKNOWN_EQUITY_CLASS.
C24_Witness ==
    /\ Checked
    /\ action.equity_class = "guest"
    /\ ~RiskIncreases /\ ~RiskAboveCeiling
    /\ result = "ECO_UNKNOWN_EQUITY_CLASS"


\* C25: from_path, given a file that reads and parses, returns a kernel
\* only if the class set is non-empty, every min_share and max_share lies
\* in [0, 1], min_share <= max_share for every class, the class names are
\* unique, the min_share add up to at most 1.0 + 1e-6 and the fractions of
\* every route envelope lie in [0, 1]; otherwise it returns an Invariant
\* error that names an item breaking one of these conditions, and no
\* kernel.  A file that does not read or parse gives no kernel either.
C25_KernelOnlyFromValidSpec ==
    Constructed("from_path") =>
        LET f == args.files[1]
        IN  /\ returned.tag = "Ok"
               => f.state = "json" /\ ValidKernelSpec(f.json)
            /\ (f.state = "json" /\ ~ValidKernelSpec(f.json))
               => /\ returned.tag = "Invariant"
                  /\ returned.item \in OffendingItems(f.json)
            /\ returned.tag # "Ok" => returned.value = <<>>

\* C25 witness: two classes, each within its own bounds, whose min_share
\* add up to 1.2, were rejected with the Invariant error on the sum.
C25_Witness ==
    /\ Constructed("from_path")
    /\ args.files[1].state = "json"
    /\ Len(args.files[1].json.classes) = 2
    /\ \A i \in 1..2 : ~ClassBroken(args.files[1].json.classes, i)
    /\ SumMinShare(args.files[1].json.classes) = 120
    /\ returned.tag = "Invariant"
    /\ returned.item = "sum(min_share)"


\* C26: a guard or kernel that a construction path returns holds no budget
\* spec that breaks the data-model invariants: in what from_path and
\* from_paths return, every class has 0 <= min_share <= max_share <= 1, the
\* min_share add up to at most 1, and every compute or power fraction of a
\* route lies in [0, 1].
C26_NoInvalidSpecBehindAGuard ==
    /\ (Constructed("from_path") /\ returned.tag = "Ok")
       => /\ BoundsInvariant(returned.value.classes)
          /\ \A r \in DOMAIN returned.value.node_routes :
                 /\ InUnit(returned.value.node_routes[r].max_power_fraction)
                 /\ InUnit(returned.value.node_routes[r].max_compute_fraction)
    /\ (Constructed("from_paths") /\ returned.tag = "Ok")
       => /\ BoundsInvariant(returned.value.cfg.grace_equity.bounds)
          /\ \A r \in DOMAIN returned.value.cfg.tsafe_envelopes :
                 InUnit(returned.value.cfg.tsafe_envelopes[r].max_compute_fraction)


\* C27: a call of check_route made while the RoH value exceeds
\* global_roh_ceiling returns RohCeilingBreach at once, whatever its route
\* and demand: the call is not admitted and CURRENT_USAGE stays as it was.
\* (The subject, route and demand of the call are those its record shows
\* after the step.)
C27_CeilingDeniesFirst ==
    [][\A t \in Threads, current_value \in RohValues :
            (/\ calls[t].pc = "idle"
             /\ current_value > ECO_FAIRNESS_SPEC.global_roh_ceiling
             /\ check_route(t, calls'[t].subject, calls'[t].route,
                            calls'[t].demand, current_value))
            => /\ calls'[t].res = "RohCeilingBreach"
               /\ calls'[t].pc = "idle"
               /\ ~PassedChecks(t)'
               /\ CURRENT_USAGE' = CURRENT_USAGE]_vars

\* C27 witness: a call on route XR whose demand exceeds the route's power
\* budget was denied with RohCeilingBreach, and the subject has no usage
\* entry.
C27_Witness ==
    \E t \in Threads :
        /\ Called(t)
        /\ calls[t].route = "XR"
        /\ calls[t].demand.max_power_watts
               > ECO_FAIRNESS_SPEC.per_route_budgets["XR"].max_power_watts
        /\ calls[t].res = "RohCeilingBreach"
        /\ calls[t].subject \notin DOMAIN CURRENT_USAGE


\* C28: for an actor whose ledger holds a deed of deed_type
\* ecological_sustainability without harm flag and without ethics flags,
\* and no harmful deed, compute_from_ledger returns a state for which
\* can_mint_church() is true and compute_mint_amount() is 7.0.  (The deeds
\* are stamped no later than now.)
C28_EcoDeedMintsSeven ==
    LET evs == events_for_actor(args.ledger, args.actor_id)
    IN  (/\ crate = "token"
         /\ args.fn = "compute_from_ledger"
         /\ returned.tag # "none"
         /\ \E i \in 1..Len(evs) :
                /\ evs[i].deed_type = "ecological_sustainability"
                /\ ~evs[i].life_harm_flag
                /\ Len(evs[i].ethics_flags) = 0
         /\ \A i \in 1..Len(evs) :
                ~evs[i].life_harm_flag /\ evs[i].timestamp <= Now)
        => /\ returned.tag = "Some"
           /\ can_mint_church(returned.value)
           /\ compute_mint_amount(returned.value) = 7 * One


\* C29: mint_church returns a strictly positive amount for every deed of
\* type ecological_sustainability without life-harm flag and without ethics
\* flags whose bioload delta is negative, however small the delta.
C29_NegativeBioloadMintsPositive ==
    (/\ crate = "token"
     /\ args.fn = "mint_church"
     /\ returned.tag = "u64"
     /\ args.event.deed_type = "ecological_sustainability"
     /\ ~args.event.life_harm_flag
     /\ Len(args.event.ethics_flags) = 0
     /\ args.metrics.bioload_delta < 0)
    => returned.value > 0


\* C30: open_or_create on a file with a non-blank line that is not one
\* whole record returns an error (InvalidData, unless opening or reading
\* failed before) and no ledger handle; when it returns a handle, every
\* non-blank line is a whole record and last_hash is the self_hash of the
\* last of them, blank lines being passed over.
C30_NoPartialRecordAccepted ==
    Constructed("open_or_create") =>
        LET ls == lines(args.files[1])
        IN  /\ (\E k \in 1..Len(ls) : Unparsable(ls[k]))
               => /\ returned.tag \in {"InvalidData", "Io"}
                  /\ returned.value = <<>>
            /\ returned.tag = "Ok"
               => /\ \A k \in 1..Len(ls) : ~Unparsable(ls[k])
                  /\ returned.value.last_hash = LastRecordHash(ls)

\* C30 witness: a file holding a record, a blank line and then the part of
\* a record was refused with InvalidData.
C30_Witness ==
    /\ Constructed("open_or_create")
    /\ args.files[1] = <<RecTok(FirstRecord), NlTok, NlTok, PartTok>>
    /\ returned.tag = "InvalidData"


\* C31: Ledger::append takes an event only if its prev_hash is the ledger's
\* last_hash: then the event becomes the last of events and its self_hash
\* the last_hash; with any other prev_hash the call panics and events and
\* last_hash stay as they were.
C31_AppendTestsPrevHash ==
    [][crate = "mem"
          => \A event \in CallerEvents :
                 Ledger_append(event)
                 => IF event.prev_hash = last_hash
                    THEN /\ ret'.res = "Ok"
                         /\ events' = Append(events, event)
                         /\ last_hash' = event.self_hash
                    ELSE /\ ret'.res = "panic"
                         /\ events' = events
                         /\ last_hash' = last_hash]_vars

\* C31 witness: a ledger holding two events has refused a third with a
\* panic, and its last_hash is still the self_hash of the second.
C31_Witness ==
    /\ crate = "mem"
    /\ Len(events) = 2
    /\ ret = Ret("append", 0, "panic")
    /\ last_hash = events[2].self_hash


\* C32: a call of check_route that has passed every check returns Ok: it
\* gets the usage entry of its subject at line 134 although it holds that
\* entry since line 119, and it has then added its demand to the subject's
\* usage once.
C32_AdmittedCallReturnsOk ==
    /\ \A t \in Threads :
          PassedChecks(t) ~> (calls[t].pc = "idle" /\ calls[t].res = "Ok")
    /\ [][\A t \in Threads :
            (PassedChecks(t) /\ calls'[t].pc = "idle")
            => LET u == calls[t].subject
                   d == calls[t].demand
               IN  /\ CURRENT_USAGE'[u].max_power_watts
                        = CURRENT_USAGE[u].max_power_watts + d.max_power_watts
                   /\ CURRENT_USAGE'[u].max_emissions_gco2eq
                        = CURRENT_USAGE[u].max_emissions_gco2eq
                            + d.max_emissions_gco2eq
                   /\ CURRENT_USAGE'[u].max_compute_cycles
                        = CURRENT_USAGE[u].max_compute_cycles
                            + d.max_compute_cycles]_vars

\* C33: a call of check_route on a route listed in altar_routes is never
\* admitted: it returns RohCeilingBreach, BudgetExceeded or
\* AltarRequiresEvolve without asking for a usage entry, and the step
\* leaves CURRENT_USAGE as it was.
C33_AltarNeverAdmitted ==
    /\ [](\A t \in Threads :
            (Called(t) /\ contains(ECO_FAIRNESS_SPEC.altar_routes, calls[t].route))
            => /\ calls[t].pc = "idle"
               /\ calls[t].res \in {"RohCeilingBreach", "BudgetExceeded",
                                    "AltarRequiresEvolve"})
    /\ [][\A t \in Threads :
            (/\ crate = "ecofairness_guardian"
             /\ calls'[t] # calls[t]
             /\ contains(ECO_FAIRNESS_SPEC.altar_routes, calls'[t].route))
            => CURRENT_USAGE' = CURRENT_USAGE]_vars

\* C33 witness: with the RoH at the ceiling, a call on route ALTAR was
\* denied with AltarRequiresEvolve while the other thread is in an admitted
\* call.
C33_Witness ==
    \E t, o \in Threads :
        /\ Called(t)
        /\ calls[t].route = "ALTAR"
        /\ calls[t].res = "AltarRequiresEvolve"
        /\ PassedChecks(o)

\* C34: can_settle_to_nonrollback approves a request only if the requested
\* status does not regress, the current tier is not SimulationOnly, the four
\* roles are present, the CEIM and CPVM proofs of the evidence are among the
\* proofs, the horizon is at least 90 days, at least one session was
\* observed with the incident rate within its ceiling, and the reversal
\* policy, the microspaces and the jurisdictions are non-empty; the approval
\* carries the requested tier and status.
C34_ApprovalMeetsEveryCondition ==
    (Decided("can_settle_to_nonrollback") /\ returned.value.approved)
        => /\ SettlementConditions(args.req)
           /\ returned.value.new_tier = args.req.requested_tier
           /\ returned.value.new_nonrollback = args.req.requested_nonrollback

\* C34 witness: a Provisional behaviour at HostLocal was approved as Settled
\* at GlobalNet.
C34_Witness ==
    /\ Decided("can_settle_to_nonrollback")
    /\ returned.value.approved
    /\ args.req.current_tier = "HostLocal"
    /\ args.req.current_nonrollback = "Provisional"
    /\ returned.value.new_tier = "GlobalNet"
    /\ returned.value.new_nonrollback = "Settled"

\* C35: a denied settlement decision carries the request's current tier and
\* current non-rollback status.
C35_DenialKeepsTierAndStatus ==
    (Decided("can_settle_to_nonrollback") /\ ~returned.value.approved)
        => /\ returned.value.new_tier = args.req.current_tier
           /\ returned.value.new_nonrollback = args.req.current_nonrollback


\* C36: evaluate_reversal returns AdmissibleTightening or
\* RequireRepairSafeHalt only for a context that meets the corridor,
\* envelope, drain, monotonicity, evidence, sovereignty and capability
\* conditions; for a context that fails one it returns the denial of the
\* first it fails, in that order.
C36_DenialOfFirstFailedCondition ==
    Decided("evaluate_reversal")
        => /\ returned.value \in NonDenials
                  => FirstFailedCondition(args.ctx) = None
           /\ FirstFailedCondition(args.ctx) # None
                  => returned.value = FirstFailedCondition(args.ctx)

\* C36 witness: a tightening whose RoH rises by exactly f32::EPSILON was
\* found admissible.
C36_Witness ==
    /\ Decided("evaluate_reversal")
    /\ returned.value = "AdmissibleTightening"
    /\ args.ctx.roh_after = args.ctx.roh_before + F32_EPSILON

\* C37: evaluate_reversal returns RequireRepairSafeHalt only for an
\* EmergencySafeHalt with no safer alternative; an EmergencySafeHalt while a
\* safer alternative exists is denied, as a predatory reversal when it has
\* met the conditions checked before; a CapabilityTightening or an
\* EnvelopeTightening never gets RequireRepairSafeHalt.
C37_SafeHaltOnlyWithoutAlternative ==
    Decided("evaluate_reversal")
        => /\ returned.value = "RequireRepairSafeHalt"
                  => /\ args.ctx.reversal_kind = "EmergencySafeHalt"
                     /\ args.ctx.evidence_flags.no_safer_alternative
           /\ ( /\ args.ctx.reversal_kind = "EmergencySafeHalt"
                /\ ~args.ctx.evidence_flags.no_safer_alternative )
                  => /\ returned.value \notin NonDenials
                     /\ FirstFailedCondition(args.ctx) = None
                            => returned.value = "DeniedPredatoryReversal"
           /\ args.ctx.reversal_kind
                  \in {"CapabilityTightening", "EnvelopeTightening"}
                  => returned.value # "RequireRepairSafeHalt"

\* C37 witness: with no overload present, an EmergencySafeHalt was denied as
\* predatory because a safer alternative exists.
C37_Witness ==
    /\ Decided("evaluate_reversal")
    /\ args.ctx.reversal_kind = "EmergencySafeHalt"
    /\ ~args.ctx.evidence_flags.no_safer_alternative
    /\ ~args.ctx.evidence_flags.overload_present
    /\ returned.value = "DeniedPredatoryReversal"


\* C38: forgiveness_quorum returns true only if at least required_quorum
\* distinct roles among Host, OrganicCPUOwner, Regulator and SovereignKernel
\* are in the role list.
C38_QuorumOfDistinctRoles ==
    ( /\ crate = "token"
      /\ args.fn = "forgiveness_quorum"
      /\ returned.tag # "none"
      /\ returned.value )
        => Cardinality({ role \in {"Host", "OrganicCPUOwner", "Regulator",
                                   "SovereignKernel"} :
                           \E i \in 1..Len(args.roles) :
                               args.roles[i] = role })
               >= args.required_quorum


\* C39: run_main_loop, finding the shutdown flag true at the top of an
\* iteration, returns Ok at once, with no metrics computed, no ethics
\* decision applied and no reward minted in that iteration; so once shutdown
\* has been signalled the loop eventually stops, and once it has stopped no
\* mutating method of the ledger is called any more.
C39_ShutdownStopsTheLoop ==
    /\ [][ (crate = "main" /\ loop_pc = "top" /\ shutdown)
              => /\ loop_pc' = "Ok"
                 /\ decision' = None
                 /\ ledger_writes' = ledger_writes ]_vars
    /\ (crate = "main" /\ shutdown) ~> (loop_pc \in Stopped)
    /\ [][ (crate = "main" /\ loop_pc \in Stopped)
              => /\ loop_pc' = loop_pc
                 /\ ledger_writes' = ledger_writes ]_vars

\* C39 witness: the loop has returned Ok after shutdown was signalled, the
\* ledger having been written to in earlier ticks.
C39_Witness ==
    /\ crate = "main"
    /\ loop_pc = "Ok"
    /\ shutdown
    /\ ledger_writes >= 1


====
